---------------------------- MODULE Spec2Model ----------------------------
(***************************************************************************)
(* Model of the genetics-results-api merge / rank / cache pipeline.        *)
(*                                                                         *)
(*   Spec      the disk result cache (app/core/cache.py) used one call at  *)
(*             a time, every write succeeding: DiskCache.get and           *)
(*             DiskCache.set, with entries that cannot be deleted.         *)
(*   SpecFault the same calls with the failures the file system and        *)
(*             json can produce, and damage done to entries from outside.  *)
(*   SpecWrap  the cached wrapper of app/server.py around the four fetch   *)
(*             functions, and process restarts with a changed config.      *)
(*   SpecConc  get and set of two processes interleaved step by step.      *)
(*   SpecFetch the fan-out of one category over its per-resource adapters  *)
(*             (app/services/datafetch.py and datafetch_single_resource.py)*)
(*             and the assembly of the response by the results handler of  *)
(*             app/server.py.                                              *)
(*   SpecHandler the request handlers of app/server.py from the request    *)
(*             to the reply: results and gene_results with their category  *)
(*             fetches, and the endpoints that stream a gene interval.     *)
(*   SpecAdapter the construction of the per-resource adapters, one        *)
(*             instance per resource type and id.                          *)
(*   SpecRows  the parsers of one association or fine-mapping row.         *)
(*   SpecGnomad GnomAD._fetch (app/services/gnomad.py) from the rows of a  *)
(*             batch to popmax, popmin, preferred and the summary.         *)
(*   SpecGene  gene_results from its three range results to its data.      *)
(***************************************************************************)
EXTENDS Integers, Sequences, FiniteSets, TLC

VARIABLES
    config,     \* the configuration the running process was started with
    files,      \* cache directory: cache key -> entry (size, mtime, content)
    clock,      \* wall clock, one tick per cache call
    restarts,   \* number of process restarts so far
    ret,        \* outcome of the last call (what the caller saw)
    ev,         \* what the last _ensure_cache_size pass did
    cdir,       \* SpecConc: cache directory, key -> blocks on disk and mtime
    cproc,      \* SpecConc: each process's call and its position in it
    cstored,    \* SpecConc: the (key, payload) pairs fully written by a set
    ccalls,     \* SpecConc: number of calls started
    ctime,      \* SpecConc: clock
    fpc,            \* SpecFetch: position of the request being served
    resource_type,  \* SpecFetch: category of the Datafetch._fetch call
    variants,       \* SpecFetch: its variants argument (None for ranges)
    tasks,          \* SpecFetch: per adapter, pending or what it returned
    fetched,        \* SpecFetch: what Datafetch._fetch returned
    response,       \* SpecFetch: what the results handler answered
    hpc,                  \* SpecHandler: position of the request being served
    request,              \* SpecHandler: the request (endpoint and inputs)
    input_variants_list,  \* SpecHandler: the list results dispatched, or None
    category,             \* SpecHandler: per category fetch, its progress
    issued,               \* SpecHandler: the store queries issued so far
    reply,                \* SpecHandler: what the caller received, or None
    logged,  \* SpecHandler: the error texts written to the log
    _instances,  \* SpecAdapter: DatafetchSingleResource._instances, key -> adapter
    constructed,  \* SpecAdapter: the last construction and how it ended
    ninit,  \* SpecAdapter: per key, constructions that completed __init__
    row_call,  \* SpecRows: the row parser call made last (category, adapter, row, variants)
    row_result,  \* SpecRows: what that call returned or raised
    gn_call,  \* SpecGnomad: the rows tabix printed for the GnomAD._fetch call made last
    gn_result,  \* SpecGnomad: what that call returned or raised
    gr_call,  \* SpecGene: the gene and the fetched results of the gene_results call made last
    gr_result  \* SpecGene: the reply of that call

cacheVars == <<config, files, clock, restarts, ret, ev>>
concVars == <<cdir, cproc, cstored, ccalls, ctime>>
fetchVars == <<fpc, resource_type, variants, tasks, fetched, response>>
handlerVars ==
    <<hpc, request, input_variants_list, category, issued, reply, logged>>
adapterVars == <<_instances, constructed, ninit>>
rowVars == <<row_call, row_result>>
gnomadVars == <<gn_call, gn_result>>
geneVars == <<gr_call, gr_result>>
notCache == <<concVars, fetchVars, handlerVars, adapterVars, rowVars, gnomadVars, geneVars>>
notConc == <<cacheVars, fetchVars, handlerVars, adapterVars, rowVars, gnomadVars, geneVars>>
notFetch == <<cacheVars, concVars, handlerVars, adapterVars, rowVars, gnomadVars, geneVars>>
notHandler == <<cacheVars, concVars, fetchVars, adapterVars, rowVars, gnomadVars, geneVars>>
notAdapter == <<cacheVars, concVars, fetchVars, handlerVars, rowVars, gnomadVars, geneVars>>
notRow == <<cacheVars, concVars, fetchVars, handlerVars, adapterVars, gnomadVars, geneVars>>
notGnomad == <<cacheVars, concVars, fetchVars, handlerVars, adapterVars, rowVars, geneVars>>
notGene == <<cacheVars, concVars, fetchVars, handlerVars, adapterVars, rowVars, gnomadVars>>
vars == <<cacheVars, concVars, fetchVars, handlerVars, adapterVars, rowVars, gnomadVars, geneVars>>

-----------------------------------------------------------------------------
(* Bounds of the model.                                                    *)

MaxClock == 4
MaxFaultClock == 2
MaxConcCalls == 3
NBlocks == 2
MaxRestarts == 1

(* cache.py:20, max_size_bytes = max_size_gb * 1024^3, in model units.     *)
max_size_bytes == 2

Paths == {"p1", "p2"}
Funcs == {"fetch_gnomad", "fetch_assoc", "fetch_ld_assoc", "fetch_finemapped"}
Args == {"q1"}
Sizes == {1, max_size_bytes + 1}
ConfigFiles == {"gnomad", "assoc_files", "finemapped_files", "ld_assoc"}

NoValue == [kind |-> "none"]

-----------------------------------------------------------------------------
(* Helpers on finite functions.                                            *)

Restrict(f, S) == [x \in S |-> f[x]]

Put(f, k, v) == [x \in (DOMAIN f) \cup {k} |-> IF x = k THEN v ELSE f[x]]

RECURSIVE SumSizes(_, _)
SumSizes(fs, ks) ==
    IF ks = {} THEN 0
    ELSE LET k == CHOOSE x \in ks : TRUE
         IN fs[k].size + SumSizes(fs, ks \ {k})

-----------------------------------------------------------------------------
(* DiskCache                                                               *)

(* _get_cache_key: the md5 of the "|"-joined parts, modelled by the tuple  *)
(* of the parts (no hash collisions).                                      *)
_get_cache_key(cfg, func_name, args) ==
    <<func_name, cfg.gnomad>> \o cfg.assoc_files \o cfg.finemapped_files
        \o <<args>>

_get_cache_size(fs) == SumSizes(fs, DOMAIN fs)

(* sorted(glob("*.json"), key=st_mtime): oldest first.                     *)
RECURSIVE SortByMtime(_, _)
SortByMtime(fs, ks) ==
    IF ks = {} THEN <<>>
    ELSE LET k == CHOOSE x \in ks : \A y \in ks : fs[x].mtime <= fs[y].mtime
         IN <<k>> \o SortByMtime(fs, ks \ {k})

(* The eviction loop of _ensure_cache_size.  stuck is the set of entries   *)
(* whose unlink raises OSError in this pass; they are skipped.             *)
RECURSIVE EvictLoop(_, _, _, _)
EvictLoop(fs, cache_files, current_size, stuck) ==
    IF cache_files = <<>> \/ current_size <= max_size_bytes THEN fs
    ELSE LET cache_file == Head(cache_files)
         IN IF cache_file \in stuck
            THEN EvictLoop(fs, Tail(cache_files), current_size, stuck)
            ELSE EvictLoop(Restrict(fs, (DOMAIN fs) \ {cache_file}),
                           Tail(cache_files),
                           current_size - fs[cache_file].size, stuck)

_ensure_cache_size(fs, stuck) ==
    IF _get_cache_size(fs) <= max_size_bytes THEN fs
    ELSE EvictLoop(fs, SortByMtime(fs, DOMAIN fs), _get_cache_size(fs), stuck)

(* json.load on an entry's content: a complete document loads, a truncated *)
(* one raises JSONDecodeError, bytes that are not UTF-8 raise               *)
(* UnicodeDecodeError when the text file is read.                          *)
LoadError(kind) ==
    CASE kind = "json"    -> "none"
      [] kind = "partial" -> "JSONDecodeError"
      [] kind = "garbled" -> "UnicodeDecodeError"

(* cache.py:78, except (json.JSONDecodeError, IOError)                     *)
GetCaught == {"JSONDecodeError", "IOError"}

(* cache.py:90, except (TypeError, IOError)                                *)
SetCaught == {"TypeError", "IOError"}

GetIO == {"ok", "touch_fail", "open_fail"}
SetOutcomes == {"ok", "TypeError", "ValueError", "open_fail", "write_fail"}

(* An entry holds, besides what is on disk (size, mtime, content), two     *)
(* times the claims speak of: atime, the time of its most recent set or    *)
(* get, and stime, the time of the set that wrote it.                      *)

(* A get that records the access but leaves the modification time alone.   *)
touch_not_recorded(fs, cache_key, now) ==
    [fs EXCEPT ![cache_key].atime = now]

(* Path.touch: sets the entry's modification time.                         *)
touch(fs, cache_key, now) ==
    [fs EXCEPT ![cache_key].mtime = now, ![cache_key].atime = now]

(* A get that finds no entry.                                              *)
get_never_found(fs, cache_key, io, now) ==
    [files |-> fs, exc |-> "none", out |-> "notfound", value |-> NoValue]

(* DiskCache.get.  io is what the file system does to this call.  The      *)
(* result carries the directory afterwards, the exception raised inside    *)
(* the try block and what the caller gets.                                 *)
get(fs, cache_key, io, now) ==
    IF cache_key \notin DOMAIN fs
    THEN [files |-> fs, exc |-> "none", out |-> "notfound", value |-> NoValue]
    ELSE LET exc == IF io = "ok" THEN LoadError(fs[cache_key].kind)
                    ELSE "IOError"
         IN [files |-> IF io = "touch_fail" THEN fs
                       ELSE touch(fs, cache_key, now),
             exc   |-> exc,
             out   |-> IF exc = "none" THEN "found"
                       ELSE IF exc \in GetCaught THEN "notfound"
                       ELSE "raised",
             value |-> IF exc = "none" THEN fs[cache_key].value ELSE NoValue]

(* The exception raised inside the try block of DiskCache.set.             *)
SetError(outcome) ==
    CASE outcome = "ok"         -> "none"
      [] outcome = "TypeError"  -> "TypeError"
      [] outcome = "ValueError" -> "ValueError"
      [] outcome = "open_fail"  -> "IOError"
      [] outcome = "write_fail" -> "IOError"

(* DiskCache.set.  open(path, "w") creates or truncates the entry,         *)
(* json.dump streams the document into it, and only then the eviction      *)
(* pass runs.  A dump that raises leaves the written bytes behind and      *)
(* skips the pass.                                                         *)
set(fs, cache_key, value, size, outcome, written, stuck, now) ==
    LET exc == SetError(outcome)
        full == [size |-> size, mtime |-> now, atime |-> now, stime |-> now,
                 kind |-> "json", value |-> value]
        torn == [size |-> written, mtime |-> now, atime |-> now,
                 stime |-> now, kind |-> "partial", value |-> NoValue]
        wrote == CASE outcome = "ok"        -> Put(fs, cache_key, full)
                   [] outcome = "open_fail" -> fs
                   [] OTHER                 -> Put(fs, cache_key, torn)
    IN [files  |-> IF outcome = "ok" THEN _ensure_cache_size(wrote, stuck)
                   ELSE wrote,
        before |-> wrote,
        pass   |-> outcome = "ok",
        exc    |-> exc,
        out    |-> IF exc = "none" \/ exc \in SetCaught THEN "done"
                   ELSE "raised"]

-----------------------------------------------------------------------------
(* The cached fetches of app/server.py                                     *)

(* The resource files a fetch reads.                                       *)
Consumed(cfg, func_name) ==
    CASE func_name = "fetch_gnomad"     -> <<cfg.gnomad>>
      [] func_name = "fetch_assoc"      -> cfg.assoc_files
      [] func_name = "fetch_ld_assoc"   -> <<cfg.ld_assoc>>
      [] func_name = "fetch_finemapped" -> cfg.finemapped_files

(* The adapters of a fetch whose failures Datafetch._fetch swallows.       *)
Adapters(cfg, func_name) ==
    CASE func_name = "fetch_assoc"      -> DOMAIN cfg.assoc_files
      [] func_name = "fetch_finemapped" -> DOMAIN cfg.finemapped_files
      [] OTHER                          -> {}

(* What a fetch returns: the data of the files it read, less the records   *)
(* of the adapters that failed.                                            *)
Payload(cfg, func_name, args, failed) ==
    [kind |-> "payload", op |-> func_name, args |-> args,
     src |-> Consumed(cfg, func_name), failed |-> failed]

-----------------------------------------------------------------------------
(* Specification Spec: DiskCache.get and DiskCache.set, one call at a      *)
(* time, on the directory of one running process.                          *)

NoPass == [ran |-> FALSE]

(* What an eviction pass did: the entries it removed, with their last      *)
(* access times, and the entries whose unlink failed.                      *)
Pass(before, after, stuck) ==
    [ran |-> TRUE,
     evicted |-> {[key |-> k, atime |-> before[k].atime,
                   stime |-> before[k].stime] :
                      k \in (DOMAIN before) \ DOMAIN after},
     stuck |-> stuck \cap DOMAIN before]

InitConfig ==
    [gnomad |-> "p1", assoc_files |-> <<"p1">>,
     finemapped_files |-> <<"p1">>, ld_assoc |-> "p1"]

InitRet == [call |-> "init", out |-> "done", exc |-> "none"]

CacheInit ==
    /\ config = InitConfig
    /\ files = <<>>
    /\ clock = 0
    /\ restarts = 0
    /\ ret = InitRet
    /\ ev = NoPass

Procs == {"w1", "w2"}
Idle == [pc |-> "idle"]

ConcInit ==
    /\ cdir = <<>>
    /\ cproc = [p \in Procs |-> Idle]
    /\ cstored = {}
    /\ ccalls = 0
    /\ ctime = 0

None == [t |-> "None"]

FetchInit ==
    /\ fpc = "idle"
    /\ resource_type = "assoc"
    /\ variants = None
    /\ tasks = <<>>
    /\ fetched = None
    /\ response = None

Categories == {"gnomad", "assoc", "ld_assoc", "finemapped"}

HandlerInit ==
    /\ hpc = "idle"
    /\ request = None
    /\ input_variants_list = None
    /\ category = [c \in Categories |-> "idle"]
    /\ issued = {}
    /\ reply = None
    /\ logged = {}

ResourceTypes == {"assoc", "finemapped"}

ResourceIds == {"finngen", "ukbb"}

instance_key(rt, resource_id) == rt \o "_" \o resource_id

InstanceKeys == {instance_key(rt, id) : rt \in ResourceTypes, id \in ResourceIds}

Absent == [t |-> "absent"]

AdapterInit ==
    /\ _instances = [k \in InstanceKeys |-> Absent]
    /\ constructed = None
    /\ ninit = [k \in InstanceKeys |-> 0]

RowInit ==
    /\ row_call = None
    /\ row_result = None

GnomadInit ==
    /\ gn_call = None
    /\ gn_result = None

GeneInit ==
    /\ gr_call = None
    /\ gr_result = None

Init == CacheInit /\ ConcInit /\ FetchInit /\ HandlerInit /\ AdapterInit /\ RowInit /\ GnomadInit /\ GeneInit

(* A caller invokes DiskCache.get; ios is what the file system may do to   *)
(* the call.                                                               *)
Get(func_name, args, ios, limit) ==
    /\ clock < limit
    /\ \E io \in ios :
         LET key == _get_cache_key(config, func_name, args)
             r == get(files, key, io, clock + 1)
         IN /\ (key \notin DOMAIN files) => io = "ok"
            /\ files' = r.files
            /\ ret' = [call |-> "get", key |-> key, out |-> r.out,
                       exc |-> r.exc, value |-> r.value]
    /\ clock' = clock + 1
    /\ ev' = NoPass
    /\ UNCHANGED <<config, restarts, notCache>>

(* A caller invokes DiskCache.set with a value whose document has the      *)
(* given size; written is the part of it on disk when the dump raises,     *)
(* stuck the entries that cannot be deleted.                               *)
Set(func_name, args, outcomes, limit) ==
    /\ clock < limit
    /\ LET key == _get_cache_key(config, func_name, args)
           value == Payload(config, func_name, args, {})
       IN \E size \in Sizes, outcome \in outcomes :
          \E written \in {0} \cup Sizes,
             stuck \in SUBSET ((DOMAIN files) \cup {key}) :
            LET r == set(files, key, value, size, outcome, written, stuck,
                         clock + 1)
            IN /\ outcome \in {"ok", "open_fail"} => written = size
               /\ outcome # "ok" => (stuck = {} /\ size = max_size_bytes + 1)
               /\ written <= size
               /\ files' = r.files
               /\ ret' = [call |-> "set", key |-> key, out |-> r.out,
                          exc |-> r.exc, value |-> NoValue]
               /\ ev' = IF r.pass THEN Pass(r.before, r.files, stuck)
                        ELSE NoPass
    /\ clock' = clock + 1
    /\ UNCHANGED <<config, restarts, notCache>>

(* Something outside the process damages an entry: its document is cut     *)
(* short, or bytes of it are overwritten with bytes that are not text.     *)
Damage(key, kind) ==
    /\ key \in DOMAIN files
    /\ files[key].kind = "json"
    /\ files' = [files EXCEPT ![key].kind = kind, ![key].value = NoValue]
    /\ UNCHANGED <<config, clock, restarts, ret, ev, notCache>>

(* Spec: the file system serves every read and write; single entries may   *)
(* be undeletable.                                                         *)
Next ==
    \/ \E f \in Funcs, a \in Args : Get(f, a, {"ok"}, MaxClock)
    \/ \E f \in Funcs, a \in Args : Set(f, a, {"ok"}, MaxClock)

Spec == Init /\ [][Next]_vars

(* SpecFault: reads and writes may fail, values may not serialise, and     *)
(* entries may be damaged.                                                 *)
NextFault ==
    \/ \E f \in Funcs, a \in Args : Get(f, a, GetIO, MaxFaultClock)
    \/ \E f \in Funcs, a \in Args : Set(f, a, SetOutcomes, MaxFaultClock)
    \/ \E k \in DOMAIN files, kind \in {"partial", "garbled"} : Damage(k, kind)

SpecFault == Init /\ [][NextFault]_vars

-----------------------------------------------------------------------------
(* Specification SpecWrap: requests served through the cached fetches,     *)
(* across restarts of the process with a changed configuration.            *)

(* A request goes through the wrapper that create_cached_decorator puts    *)
(* around a fetch: get, and on a miss the fetch and then set.  fetch is    *)
(* whether the wrapped fetch returns or raises, failed the adapters whose  *)
(* failure Datafetch._fetch swallowed.                                     *)
Wrapper(func_name, args, ios, outcomes, sizes) ==
    /\ clock < MaxClock
    /\ LET key == _get_cache_key(config, func_name, args)
           now == clock + 1
       IN \E io \in ios, fetch \in {"ok", "raise"},
             failed \in SUBSET Adapters(config, func_name) :
          \E size \in sizes, outcome \in outcomes :
            LET g == get(files, key, io, now)
                result == Payload(config, func_name, args, failed)
                s == set(g.files, key, result, size, outcome, size, {}, now)
                missed == g.out = "notfound"
                call == [call |-> "wrapper", func |-> func_name,
                         args |-> args, key |-> key]
            IN /\ (key \notin DOMAIN files) => io = "ok"
               /\ ~(missed /\ fetch = "ok") =>
                     (\A z \in sizes : size <= z) /\ outcome = "ok"
                         /\ failed = {}
               /\ (~missed) => fetch = "ok"
               /\ CASE g.out = "raised" ->
                         /\ files' = g.files
                         /\ ev' = NoPass
                         /\ ret' = call @@ [out |-> "raised", exc |-> g.exc,
                                            hit |-> FALSE, fetched |-> FALSE,
                                            value |-> NoValue]
                    [] g.out = "found" ->
                         /\ files' = g.files
                         /\ ev' = NoPass
                         /\ ret' = call @@ [out |-> "returned",
                                            exc |-> "none",
                                            hit |-> TRUE, fetched |-> FALSE,
                                            value |-> g.value]
                    [] missed /\ fetch = "raise" ->
                         /\ files' = g.files
                         /\ ev' = NoPass
                         /\ ret' = call @@ [out |-> "raised",
                                            exc |-> "FetchError",
                                            hit |-> FALSE, fetched |-> TRUE,
                                            value |-> NoValue]
                    [] missed /\ fetch = "ok" ->
                         /\ files' = s.files
                         /\ ev' = IF s.pass THEN Pass(s.before, s.files, {})
                                  ELSE NoPass
                         /\ ret' = call @@
                                [out |-> IF s.out = "raised" THEN "raised"
                                         ELSE "returned",
                                 exc |-> IF s.out = "raised" THEN s.exc
                                         ELSE "none",
                                 hit |-> FALSE, fetched |-> TRUE,
                                 value |-> IF s.out = "raised" THEN NoValue
                                           ELSE result]
    /\ clock' = clock + 1
    /\ UNCHANGED <<config, restarts, notCache>>

(* The process is restarted with the path of one resource file changed in  *)
(* its configuration; the cache directory is kept and DiskCache.__init__   *)
(* runs an eviction pass over it.                                          *)
Restart(which, path) ==
    /\ restarts < MaxRestarts
    /\ config' = CASE which = "gnomad" -> [config EXCEPT !.gnomad = path]
                   [] which = "assoc_files" ->
                        [config EXCEPT !.assoc_files = <<path>>]
                   [] which = "finemapped_files" ->
                        [config EXCEPT !.finemapped_files = <<path>>]
                   [] which = "ld_assoc" -> [config EXCEPT !.ld_assoc = path]
    /\ files' = _ensure_cache_size(files, {})
    /\ ev' = Pass(files, files', {})
    /\ restarts' = restarts + 1
    /\ ret' = InitRet
    /\ UNCHANGED <<clock, notCache>>

NextWrap ==
    \/ \E f \in Funcs, a \in Args : Wrapper(f, a, {"ok"}, {"ok"}, {1})
    \/ \E w \in ConfigFiles, p \in Paths : Restart(w, p)

SpecWrap == Init /\ [][NextWrap]_vars

-----------------------------------------------------------------------------
(* Specification SpecConc: several processes call get and set on one       *)
(* cache directory at the same time.  A call is a sequence of system       *)
(* calls; those of different processes interleave.  The document of a      *)
(* payload reaches the disk in NBlocks writes, each at the writer's own    *)
(* file offset.  All payloads have the same layout, so that any NBlocks    *)
(* blocks in their places form a document that json.load accepts.          *)

CKeys == {"k1", "k2"}
Hole == [id |-> 0, idx |-> 0]

(* write(2) of one block at offset off of a file holding blocks.           *)
WriteAt(blocks, off, b) ==
    [i \in 1..(IF off + 1 > Len(blocks) THEN off + 1 ELSE Len(blocks)) |->
        IF i = off + 1 THEN b
        ELSE IF i <= Len(blocks) THEN blocks[i] ELSE Hole]

(* json.load of the blocks: the payload, or no document.                   *)
Parses(blocks) ==
    /\ Len(blocks) = NBlocks
    /\ \A i \in 1..NBlocks : blocks[i].idx = i

Loaded(blocks) == [i \in 1..NBlocks |-> blocks[i].id]

(* The document of the payload a set call writes, block by block.          *)
Document(id) == [i \in 1..NBlocks |-> id]

CSize(dir) == SumSizes([k \in DOMAIN dir |-> [size |-> Len(dir[k].blocks)]],
                       DOMAIN dir)

Done(p, res) == cproc' = [cproc EXCEPT ![p] = [pc |-> "idle", res |-> res]]

StartGet(p, k) ==
    /\ cproc[p].pc = "idle"
    /\ ccalls < MaxConcCalls
    /\ ccalls' = ccalls + 1
    /\ cproc' = [cproc EXCEPT ![p] = [pc |-> "g_exists", key |-> k]]
    /\ UNCHANGED <<cdir, cstored, ctime, notConc>>

(* cache.py:71, if not cache_path.exists(): return None                    *)
GetExists(p) ==
    /\ cproc[p].pc = "g_exists"
    /\ IF cproc[p].key \in DOMAIN cdir
       THEN cproc' = [cproc EXCEPT ![p].pc = "g_touch"]
       ELSE Done(p, [op |-> "get", key |-> cproc[p].key, out |-> "notfound"])
    /\ UNCHANGED <<cdir, cstored, ccalls, ctime, notConc>>

(* cache.py:75, cache_path.touch(exist_ok=True): creates the file when it  *)
(* has been removed since exists().                                        *)
GetTouch(p) ==
    /\ cproc[p].pc = "g_touch"
    /\ LET k == cproc[p].key
       IN cdir' = IF k \in DOMAIN cdir
                  THEN [cdir EXCEPT ![k].mtime = ctime + 1]
                  ELSE Put(cdir, k, [blocks |-> <<>>, mtime |-> ctime + 1,
                                     ino |-> ctime + 1])
    /\ ctime' = ctime + 1
    /\ cproc' = [cproc EXCEPT ![p].pc = "g_read"]
    /\ UNCHANGED <<cstored, ccalls, notConc>>

(* cache.py:76-79, open and json.load; FileNotFoundError and               *)
(* JSONDecodeError give None.                                              *)
GetRead(p) ==
    /\ cproc[p].pc = "g_read"
    /\ LET k == cproc[p].key
       IN IF k \in DOMAIN cdir /\ Parses(cdir[k].blocks)
          THEN Done(p, [op |-> "get", key |-> k, out |-> "found",
                        value |-> Loaded(cdir[k].blocks)])
          ELSE Done(p, [op |-> "get", key |-> k, out |-> "notfound"])
    /\ UNCHANGED <<cdir, cstored, ccalls, ctime, notConc>>

StartSet(p, k) ==
    /\ cproc[p].pc = "idle"
    /\ ccalls < MaxConcCalls
    /\ ccalls' = ccalls + 1
    /\ cproc' = [cproc EXCEPT ![p] = [pc |-> "s_open", key |-> k,
                                      id |-> ccalls + 1]]
    /\ UNCHANGED <<cdir, cstored, ctime, notConc>>

(* cache.py:87, open(cache_path, "w"): truncates the file, or creates it.  *)
SetOpen(p) ==
    /\ cproc[p].pc = "s_open"
    /\ LET k == cproc[p].key
           ino == IF k \in DOMAIN cdir THEN cdir[k].ino ELSE ctime + 1
       IN /\ cdir' = Put(cdir, k, [blocks |-> <<>>, mtime |-> ctime + 1,
                                   ino |-> ino])
          /\ cproc' = [cproc EXCEPT ![p] = [pc |-> "s_write", key |-> k,
                                            id |-> cproc[p].id, off |-> 0,
                                            ino |-> ino]]
    /\ ctime' = ctime + 1
    /\ UNCHANGED <<cstored, ccalls, notConc>>

(* cache.py:88, json.dump: one write of the next block at this writer's    *)
(* offset.  A write to a file that has been unlinked changes nothing in    *)
(* the directory.  The last write completes the document.                  *)
SetWrite(p) ==
    /\ cproc[p].pc = "s_write"
    /\ LET k == cproc[p].key
           off == cproc[p].off
           b == [id |-> cproc[p].id, idx |-> off + 1]
       IN /\ IF k \in DOMAIN cdir /\ cdir[k].ino = cproc[p].ino
             THEN cdir' = [cdir EXCEPT ![k].blocks = WriteAt(@, off, b),
                                       ![k].mtime = ctime + 1]
             ELSE cdir' = cdir
          /\ IF off + 1 = NBlocks
             THEN /\ cproc' = [cproc EXCEPT ![p] = [pc |-> "s_scan",
                                                    key |-> k]]
                  /\ cstored' = cstored \cup
                                  {[key |-> k, value |-> Document(cproc[p].id)]}
             ELSE /\ cproc' = [cproc EXCEPT ![p].off = off + 1]
                  /\ UNCHANGED cstored
    /\ ctime' = ctime + 1
    /\ UNCHANGED <<ccalls, notConc>>

(* cache.py:47-53, the size of the directory and its files by mtime.       *)
SetScan(p) ==
    /\ cproc[p].pc = "s_scan"
    /\ IF CSize(cdir) <= max_size_bytes
       THEN Done(p, [op |-> "set", key |-> cproc[p].key, out |-> "done"])
       ELSE cproc' = [cproc EXCEPT ![p] =
                [pc |-> "s_evict", key |-> cproc[p].key,
                 cache_files |-> SortByMtime(cdir, DOMAIN cdir),
                 current_size |-> CSize(cdir)]]
    /\ UNCHANGED <<cdir, cstored, ccalls, ctime, notConc>>

(* cache.py:55-64, one round of the eviction loop.  stat of a file that    *)
(* another process removed raises FileNotFoundError, which set swallows.   *)
SetEvict(p) ==
    /\ cproc[p].pc = "s_evict"
    /\ LET st == cproc[p]
           res == [op |-> "set", key |-> st.key, out |-> "done"]
       IN IF st.cache_files = <<>> \/ st.current_size <= max_size_bytes
          THEN Done(p, res) /\ UNCHANGED cdir
          ELSE LET f == Head(st.cache_files)
               IN IF f \notin DOMAIN cdir
                  THEN Done(p, res) /\ UNCHANGED cdir
                  ELSE /\ cdir' = Restrict(cdir, (DOMAIN cdir) \ {f})
                       /\ cproc' = [cproc EXCEPT ![p].cache_files = Tail(@),
                                      ![p].current_size =
                                          @ - Len(cdir[f].blocks)]
    /\ UNCHANGED <<cstored, ccalls, ctime, notConc>>

NextConc ==
    \/ \E p \in Procs, k \in CKeys : StartGet(p, k)
    \/ \E p \in Procs : GetExists(p)
    \/ \E p \in Procs : GetTouch(p)
    \/ \E p \in Procs : GetRead(p)
    \/ \E p \in Procs, k \in CKeys : StartSet(p, k)
    \/ \E p \in Procs : SetOpen(p)
    \/ \E p \in Procs : SetWrite(p)
    \/ \E p \in Procs : SetScan(p)
    \/ \E p \in Procs : SetEvict(p)

SpecConc == Init /\ [][NextConc]_vars

-----------------------------------------------------------------------------
(* Claims about the cache, one call at a time.                             *)

(* C1: after construction and after every set, the total size of the       *)
(* entries in the cache directory is at most max_size_bytes.               *)
C1_SizeWithinBudget == _get_cache_size(files) <= max_size_bytes

C4_NoCacheErrorEscapes == ret.out # "raised"

(* C2: a payload stored for an operation is never returned once the path   *)
(* of a resource file the operation reads has changed: every cache hit     *)
(* returns a payload computed from the files now configured.               *)
C2_HitIsOfCurrentFiles ==
    (ret.call = "wrapper" /\ ret.hit) =>
        ret.value.src = Consumed(config, ret.func)

(* C5: a cache hit returns what an execution of the fetch in which every   *)
(* adapter succeeds returns for the same operation and arguments.          *)
C5_HitIsWholeResult ==
    (ret.call = "wrapper" /\ ret.hit) =>
        /\ ret.value.op = ret.func
        /\ ret.value.args = ret.args
        /\ ret.value.failed = {}

(* C6: under any interleaving, a get returns not-found or exactly a        *)
(* payload that a set stored under the same key.                           *)
C6_GetReturnsStoredPayload ==
    \A p \in Procs :
        (cproc[p].pc = "idle" /\ "res" \in DOMAIN cproc[p]
            /\ cproc[p].res.out = "found") =>
        \E s \in cstored : s.key = cproc[p].res.key
                            /\ s.value = cproc[p].res.value


-----------------------------------------------------------------------------
(* SpecFetch: Datafetch._fetch over the adapters of one category, and the  *)
(* results handler that assembles the response.                            *)

(* Bound: the number of rows tabix prints for one adapter.                 *)
MaxRows == 2

(* Python values of the numeric fields.  A float is a record so that the   *)
(* string "NA" and the infinities can stand where a number can.            *)
(* The field n of a float is its value in thousandths.                     *)
Milli(m) == [t |-> "float", n |-> m]
Float(n) == Milli(n * 1000)
NA == [t |-> "NA", n |-> 0]
inf == [t |-> "inf", n |-> 0]
neg_inf == [t |-> "-inf", n |-> 0]
ValueError == [t |-> "ValueError", n |-> 0]
ZeroDivisionError == [t |-> "ZeroDivisionError", n |-> 0]
IsError(x) == x.t \in {"ValueError", "ZeroDivisionError"}

(* -x for a float x                                                        *)
Neg(x) ==
    IF x.t = "float" THEN Milli(0 - x.n)
    ELSE IF x = inf THEN neg_inf ELSE inf

(* x < y for floats                                                        *)
Less(x, y) ==
    /\ x # y
    /\ \/ x = neg_inf
       \/ y = inf
       \/ x.t = "float" /\ y.t = "float" /\ x.n < y.n

(* float(s) for the field texts that occur in the rows of the model; a     *)
(* text that is not a number raises ValueError.                            *)
float(s) ==
    CASE s = "0" -> Float(0)
      [] s = "1" -> Float(1)
      [] s = "2" -> Float(2)
      [] s = "3" -> Float(3)
      [] s = "5" -> Float(5)
      [] s = "9" -> Float(9)
      [] s = "-2" -> Float(0 - 2)
      [] s = "inf" -> inf
      [] OTHER -> ValueError

(* -logsf(|beta| / sebeta) / ln 10 - log10 2 in whole units, for the       *)
(* effect sizes of the model (1.34 for a ratio of 2, 0.50 for 1, 0 for 0). *)
(* The result is never below 0 for sebeta > 0; sebeta = 0 raises           *)
(* ZeroDivisionError.                                                      *)
abs(x) == IF x.n < 0 THEN Milli(0 - x.n) ELSE x

\* -scipy.stats.norm.logsf(z) / math.log(10) in thousandths, for z = k / 2:
\* minus the decimal logarithm of the upper tail of the standard normal.
neg_log10_sf ==
    <<301, 511, 800, 1175, 1643, 2207, 2870, 3633, 4499, 5469, 6543, 7721,
      9006, 10396, 11893, 13496, 15206, 17023, 18947>>

\* math.log10(2) in thousandths
log10_2 == 301

mlogp_one_sided(beta, sebeta) ==
    IF sebeta.n = 0 THEN ZeroDivisionError
    ELSE Milli(neg_log10_sf[(2 * abs(beta).n) \div sebeta.n + 1])

mlogp_from_beta(beta, sebeta) ==
    IF sebeta.n = 0 THEN ZeroDivisionError
    ELSE Milli(neg_log10_sf[(2 * abs(beta).n) \div sebeta.n + 1] - log10_2)

(* sorted(s, key): Python's stable sort; k[i] is the key of s[i].          *)
Rank(k, i) ==
    Cardinality({j \in 1..Len(k) : Less(k[j], k[i]) \/ (k[j] = k[i] /\ j < i)}) + 1

sorted(s, k) ==
    [p \in 1..Len(s) |-> s[CHOOSE i \in 1..Len(s) : Rank(k, i) = p]]

(* The configured resources of each category, in configuration order.      *)
assoc_resources ==
    << [resource |-> "r1", ignore_phenos |-> {"tx"}],
       [resource |-> "r2", ignore_phenos |-> {}] >>

finemapped_resources ==
    << [resource |-> "f1", ignore_phenos |-> {"tx"}, method_header |-> TRUE],
       [resource |-> "f2", ignore_phenos |-> {}, method_header |-> FALSE] >>

Resources(rt) == IF rt = "assoc" THEN assoc_resources ELSE finemapped_resources

(* The Variant value type: chromosome, position, reference and alternate   *)
(* allele; two variants are equal when all four fields are, and str gives  *)
(* the canonical "chr:pos:ref:alt".                                        *)
Variant(chr, pos, ref, alt) == [chr |-> chr, pos |-> pos, ref |-> ref, alt |-> alt]
str(v) == v.chr \o ":" \o v.pos \o ":" \o v.ref \o ":" \o v.alt

V1 == Variant("1", "1000", "A", "T")
V1c == Variant("1", "1000", "A", "C")
V2 == Variant("1", "2000", "G", "C")
Variants == {V1, V2}

(* Rows of an association file, as tabix prints them (fields are text).    *)
AssocRow(v, trait, data_type, beta, se, mlog10p) ==
    [chr |-> v.chr, pos |-> v.pos, ref |-> v.ref, alt |-> v.alt,
     trait |-> trait, dataset |-> "d1", data_type |-> data_type,
     beta |-> beta, se |-> se, mlog10p |-> mlog10p]

AssocRows ==
    { AssocRow(V1, "t1", "GWAS", "1", "1", "2"),
      AssocRow(V1, "tx", "sQTL", "1", "1", "0"),
      AssocRow(V2, "t1", "GWAS", "2", "1", "inf"),
      AssocRow(V1, "t1", "GWAS", "NA", "NA", "3"),
      AssocRow(V2, "t1", "GWAS", "1", "1", "x"),
      AssocRow(V1c, "t1", "GWAS", "1", "1", "1") }

(* Rows of a fine-mapping file.                                            *)
FinemappedRow(v, trait, data_type, method, mlog10p, pip) ==
    [resource |-> "fr", chr |-> v.chr, pos |-> v.pos, ref |-> v.ref,
     alt |-> v.alt, trait |-> trait, dataset |-> "d1", data_type |-> data_type,
     method |-> method, mlog10p |-> mlog10p, beta |-> "1", se |-> "1",
     pip |-> pip]

FinemappedRows ==
    { FinemappedRow(V1, "t1", "gwas", "SuSiE-inf", "1", "9"),
      FinemappedRow(V1, "tx", "GWAS", "SuSiE-inf", "5", "2"),
      FinemappedRow(V2, "t1", "GWAS", "SuSiE-inf", "NA", "1"),
      FinemappedRow(V1, "t1", "GWAS", "SuSiE", "9", "9"),
      FinemappedRow(V2, "t1", "GWAS", "SuSiE-inf", "1", "x"),
      FinemappedRow(V1c, "t1", "GWAS", "SuSiE-inf", "2", "5") }

Rows(rt) == IF rt = "assoc" THEN AssocRows ELSE FinemappedRows

(* What the tabix subprocess can do: fail (I/O error, nonzero exit,        *)
(* output on stderr) or print up to MaxRows rows of the regions asked for: *)
(* the positions of the variants of a variant list (fetch_variants writes  *)
(* chr, pos, pos per variant), any row of the file for a range.            *)
InRegions(row, vs) ==
    vs = None \/ \E v \in vs.list : v.chr = row.chr /\ v.pos = row.pos

TabixOutputs(rt, vs) ==
    {[ok |-> FALSE, rows |-> <<>>]} \cup
    {[ok |-> TRUE, rows |-> r] :
        r \in UNION {[1..n -> {row \in Rows(rt) : InRegions(row, vs)}] :
                        n \in 0..MaxRows}}

(* DatafetchSingleResource._parse_assoc_row: None for a row that is not of *)
(* a queried variant, has beta "NA" or an ignored trait; an error for a    *)
(* row whose numbers do not parse; otherwise the record.                   *)
NoRecord == [kind |-> "None"]
RowError(e) == [kind |-> "error", exc |-> e.t]

_parse_assoc_row(resource, row, vs) ==
    IF vs # None /\ Variant(row.chr, row.pos, row.ref, row.alt) \notin vs.list
    THEN NoRecord
    ELSE IF row.beta # "NA" /\ row.trait \notin resource.ignore_phenos
    THEN LET beta == float(row.beta)
             sebeta == float(row.se)
             parsed == float(row.mlog10p)
             mlogp == IF IsError(beta) \/ IsError(sebeta) \/ IsError(parsed)
                      THEN ValueError
                      ELSE IF parsed = inf THEN mlogp_from_beta(beta, sebeta)
                      ELSE parsed
         IN  IF IsError(mlogp) THEN RowError(mlogp)
             ELSE [kind |-> "record",
                   rec |-> [variant |-> str(Variant(row.chr, row.pos, row.ref, row.alt)),
                            ld |-> FALSE,
                            resource |-> resource.resource,
                            dataset |-> row.dataset,
                            data_type |-> row.data_type,
                            phenocode |-> IF row.data_type # "sQTL" THEN row.trait
                                          ELSE row.dataset \o ":" \o row.trait,
                            mlog10p |-> mlogp,
                            beta |-> beta,
                            sebeta |-> sebeta]]
    ELSE NoRecord

(* DatafetchSingleResource._parse_finemapped_row                           *)
_parse_finemapped_row(resource, row) ==
    IF /\ ~resource.method_header \/ row.method = "SuSiE-inf"
       /\ row.trait \notin resource.ignore_phenos
    THEN LET data_type == IF row.data_type = "gwas" THEN "GWAS" ELSE row.data_type
             mlog10p == IF row.mlog10p # "NA" THEN float(row.mlog10p) ELSE NA
             pip == float(row.pip)
         IN  IF IsError(pip) THEN RowError(pip)
             ELSE IF IsError(mlog10p) THEN RowError(mlog10p)
             ELSE [kind |-> "record",
                   rec |-> [variant |-> str(Variant(row.chr, row.pos, row.ref, row.alt)),
                            resource |-> IF row.dataset = "FinnGen_drugs"
                                         THEN "FinnGen_drugs"
                                         ELSE row.resource,
                            dataset |-> row.dataset,
                            data_type |-> data_type,
                            phenocode |-> IF data_type # "sQTL" THEN row.trait
                                          ELSE row.dataset \o ":" \o row.trait,
                            mlog10p |-> mlog10p,
                            beta |-> IF row.beta # "NA"
                                     THEN float(row.beta) ELSE NA,
                            se |-> IF row.se # "NA" THEN float(row.se) ELSE NA,
                            pip |-> pip]]
    ELSE NoRecord

(* The placeholder an association adapter appends for a variant.           *)
placeholder_zero(resource) ==
    [resource |-> resource.resource, dataset |-> "NA", data_type |-> "NA",
     phenocode |-> "NA", mlog10p |-> Float(0), beta |-> Float(0),
     sebeta |-> Float(0)]

placeholder(resource) ==
    [resource |-> resource.resource, dataset |-> "NA", data_type |-> "NA",
     phenocode |-> "NA", mlog10p |-> Float(0 - 1), beta |-> Float(0),
     sebeta |-> Float(0)]

IsPlaceholder(x) == x.dataset = "NA" /\ x.data_type = "NA" /\ x.phenocode = "NA"

(* What an adapter hands to gather: an exception or its results.           *)
Exception(name) == [exc |-> TRUE, name |-> name, data |-> <<>>]
Returned(data) == [exc |-> FALSE, name |-> "", data |-> data]

(* The key a record is stored under: results[result["variant"]].           *)
result_key_position(result) ==
    LET v == CHOOSE x \in {V1, V1c, V2} : str(x) = result.variant
    IN  v.chr \o ":" \o v.pos

result_key(result) == result.variant

(* DatafetchSingleResource._fetch: run tabix, parse the rows it printed,   *)
(* group the records by variant and, for the association category, append  *)
(* one placeholder to the list of every variant that has a list.           *)
single_fetch(resource, rt, vs, tabix) ==
    IF ~tabix.ok THEN Exception("DataException")
    ELSE
    LET parsed == [i \in 1..Len(tabix.rows) |->
                     IF rt = "finemapped"
                     THEN _parse_finemapped_row(resource, tabix.rows[i])
                     ELSE _parse_assoc_row(resource, tabix.rows[i], vs)]
        errors == {i \in 1..Len(parsed) : parsed[i].kind = "error"}
        recs == SelectSeq(parsed, LAMBDA x : x.kind = "record")
        keys == {result_key(recs[i].rec) : i \in 1..Len(recs)}
        of(v) == LET mine == SelectSeq(recs, LAMBDA x : result_key(x.rec) = v)
                 IN  [i \in 1..Len(mine) |-> mine[i].rec]
    IN  IF errors # {}
        THEN Exception(parsed[CHOOSE i \in errors : \A j \in errors : i <= j].exc)
        ELSE Returned([v \in keys |->
                         IF rt = "assoc" THEN Append(of(v), placeholder(resource))
                         ELSE of(v)])

(* Datafetch._fetch, lines 58-71: the lists of the adapters that returned, *)
(* joined per variant in the order of the tasks; an exception is skipped.  *)
RECURSIVE combined_until_exception(_, _)
combined_until_exception(results, variant) ==
    IF results = <<>> \/ Head(results).exc THEN <<>>
    ELSE (IF variant \in DOMAIN Head(results).data
          THEN Head(results).data[variant] ELSE <<>>)
         \o combined_until_exception(Tail(results), variant)

RECURSIVE combined_results(_, _)
combined_results(results, variant) ==
    IF results = <<>> THEN <<>>
    ELSE IF Head(results).exc THEN combined_results(Tail(results), variant)
    ELSE (IF variant \in DOMAIN Head(results).data
          THEN Head(results).data[variant] ELSE <<>>)
         \o combined_results(Tail(results), variant)

variants_used(results) ==
    UNION {DOMAIN results[i].data : i \in {j \in 1..Len(results) : ~results[j].exc}}

(* the sort key of Datafetch._fetch                                        *)
fetch_key_ascending(x) == IF x.mlog10p = NA THEN neg_inf ELSE x.mlog10p

fetch_key(x) == IF x.mlog10p = NA THEN neg_inf ELSE Neg(x.mlog10p)

(* Datafetch._fetch after gather: merge, sort, return.                     *)
_fetch(results) ==
    LET data == [v \in variants_used(results) |->
                   LET c == combined_results(results, v)
                   IN  sorted(c, [i \in 1..Len(c) |-> fetch_key(c[i])])]
    IN  [data |-> data,
         resources |-> UNION {{data[v][i].resource : i \in 1..Len(data[v])} :
                              v \in DOMAIN data}]

(* Rows of the LD association file and what tabix can print for a request. *)
LDRows ==
    { [tag |-> V1, lead |-> V1, study |-> "s1", beta |-> "1",
       odds_ratio |-> "None", pval |-> "1e-5"],
      [tag |-> V1, lead |-> V2, study |-> "s2", beta |-> "None",
       odds_ratio |-> "1", pval |-> "1"],
      [tag |-> V2, lead |-> V2, study |-> "s3", beta |-> "None",
       odds_ratio |-> "None", pval |-> "0"] }

LDOutputs ==
    {[ok |-> FALSE, rows |-> <<>>], [ok |-> TRUE, rows |-> <<>>]} \cup
    {[ok |-> TRUE, rows |-> <<r>>] : r \in LDRows} \cup
    {[ok |-> TRUE, rows |-> <<r, s>>] : r \in {x \in LDRows : x.pval = "1"},
                                        s \in {x \in LDRows : x.pval = "1e-5"}}

(* -math.log10(float(pval)); math.log10(0.0) raises ValueError.            *)
ld_mlogp(pval) ==
    CASE pval = "1e-5" -> Float(5)
      [] pval = "1" -> Float(0)
      [] OTHER -> ValueError

(* math.log(float(odds_ratio))                                             *)
ld_beta(beta_str, odds_ratio_str) ==
    IF beta_str # "None"
    THEN (IF IsError(float(beta_str)) THEN Float(0) ELSE float(beta_str))
    ELSE IF odds_ratio_str # "None"
    THEN Float(0)    \* the odds ratios in the rows of the model are 1
    ELSE Float(0)

(* LDDatafetch.fetch_variants                                              *)
ld_fetch_variants(vs, tabix) ==
    IF ~tabix.ok THEN Exception("DataException")
    ELSE
    LET rows == SelectSeq(tabix.rows, LAMBDA d : d.tag \in vs.list)
        errors == {i \in 1..Len(rows) : IsError(ld_mlogp(rows[i].pval))}
        rec(d) == [variant |-> str(d.tag),
                   ld |-> TRUE,
                   resource |-> "Open_Targets",
                   dataset |-> "Open_Targets_22.09",
                   data_type |-> "GWAS",
                   phenocode |-> d.study,
                   mlog10p |-> ld_mlogp(d.pval),
                   beta |-> ld_beta(d.beta, d.odds_ratio),
                   sebeta |-> Float(0 - 1),
                   lead |-> d.lead = d.tag]
        keys == {str(rows[i].tag) : i \in 1..Len(rows)}
        of(v) == LET mine == SelectSeq(rows, LAMBDA d : str(d.tag) = v)
                 IN  [i \in 1..Len(mine) |-> rec(mine[i])]
    IN  IF errors # {} THEN Exception("ValueError")
        ELSE Returned([data |-> [v \in keys |-> of(v)],
                       resources |-> {"Open_Targets"}])

(* What fetch_gnomad can give the handler: an exception or the queried     *)
(* variants that gnomAD has.                                               *)
GnomadOutcomes(vs) ==
    {Exception("VariantNotFoundException")} \cup
    {Returned([data |-> [v \in {str(x) : x \in s} |-> "gnomad"]]) : s \in SUBSET vs.list}

(* The loop of the results handler (server.py, lines 526-571): one entry   *)
(* per variant of the gnomAD data; the association list is the adapter     *)
(* records and the LD records sorted by -float(mlog10p), the fine-mapping  *)
(* list is handed on as fetched.                                           *)
entries(gnomad_data, assoc_data, ld_assoc_data, finemapped_data) ==
    [variant_str \in DOMAIN gnomad_data.data |->
       LET variant_assoc == IF variant_str \in DOMAIN assoc_data.data
                            THEN assoc_data.data[variant_str] ELSE <<>>
           variant_ld_assoc == IF variant_str \in DOMAIN ld_assoc_data.data
                               THEN ld_assoc_data.data[variant_str] ELSE <<>>
           variant_finemapped == IF variant_str \in DOMAIN finemapped_data.data
                                 THEN finemapped_data.data[variant_str] ELSE <<>>
           both == variant_assoc \o variant_ld_assoc
       IN  [variant |-> variant_str,
            assoc |-> [data |-> sorted(both, [i \in 1..Len(both) |-> Neg(both[i].mlog10p)]),
                       resources |-> assoc_data.resources \cup ld_assoc_data.resources],
            finemapped |-> [data |-> variant_finemapped,
                            resources |-> finemapped_data.resources]]]

NoData == [data |-> <<>>, resources |-> {}]

Pending == [st |-> "pending", result |-> None]
Queries == {None} \cup {[t |-> "list", list |-> s] : s \in {{V1}, Variants}}

(* Datafetch.fetch_variants / fetch_ranges is called: _fetch creates one   *)
(* task per resource of the category and awaits gather (lines 44-56).      *)
StartFetch(rt, vs) ==
    /\ fpc \in {"idle", "returned", "responded"}
    /\ fpc' = "gather"
    /\ resource_type' = rt
    /\ variants' = vs
    /\ tasks' = [i \in 1..Len(Resources(rt)) |-> Pending]
    /\ fetched' = None
    /\ response' = None
    /\ UNCHANGED notFetch

(* The task of one adapter finishes, with its results or an exception.     *)
AdapterDone(i, tabix) ==
    /\ fpc = "gather"
    /\ i \in DOMAIN tasks
    /\ tasks[i].st = "pending"
    /\ tabix \in TabixOutputs(resource_type, variants)
    /\ tasks' = [tasks EXCEPT ![i] =
                   [st |-> "done",
                    result |-> single_fetch(Resources(resource_type)[i],
                                            resource_type, variants, tabix)]]
    /\ UNCHANGED <<fpc, resource_type, variants, fetched, response, notFetch>>

(* gather(..., return_exceptions=True) completes when every task has, and  *)
(* _fetch merges, sorts and returns.                                       *)
FetchReturn ==
    /\ fpc = "gather"
    /\ \A i \in DOMAIN tasks : tasks[i].st = "done"
    /\ fetched' = _fetch([i \in DOMAIN tasks |-> tasks[i].result])
    /\ fpc' = "returned"
    /\ UNCHANGED <<resource_type, variants, tasks, response, notFetch>>

(* The results handler, from its gather of the four fetches to the end of  *)
(* the assembly loop.  The request is followed through the category that   *)
(* was fetched; the fetch of the other category is the one in which no     *)
(* adapter has records.  An exception of fetch_gnomad or fetch_ld_assoc    *)
(* leaves the handler.                                                     *)
Results(gnomad, ld_tabix) ==
    /\ fpc = "returned"
    /\ variants # None
    /\ gnomad \in GnomadOutcomes(variants)
    /\ LET ld == ld_fetch_variants(variants, ld_tabix)
           assoc_data == IF resource_type = "assoc" THEN fetched ELSE NoData
           finemapped_data == IF resource_type = "finemapped" THEN fetched ELSE NoData
       IN  response' =
             IF gnomad.exc \/ ld.exc THEN [out |-> "raised", data |-> <<>>]
             ELSE [out |-> "returned",
                   data |-> entries(gnomad.data, assoc_data, ld.data, finemapped_data)]
    /\ fpc' = "responded"
    /\ UNCHANGED <<resource_type, variants, tasks, fetched, notFetch>>

NextFetch ==
    \/ \E rt \in {"assoc", "finemapped"}, vs \in Queries : StartFetch(rt, vs)
    \/ \E i \in DOMAIN assoc_resources \cup DOMAIN finemapped_resources,
          tabix \in TabixOutputs("assoc", None) \cup TabixOutputs("finemapped", None) :
          AdapterDone(i, tabix)
    \/ FetchReturn
    \/ \E gnomad \in UNION {GnomadOutcomes(vs) : vs \in Queries \ {None}},
          ld_tabix \in LDOutputs :
          Results(gnomad, ld_tabix)

SpecFetch == Init /\ [][NextFetch]_vars

-----------------------------------------------------------------------------
(* Claims about the fan-out and the merge.                                 *)

Count(s, x) == Cardinality({j \in 1..Len(s) : s[j] = x})
FetchIsBack == fpc \in {"returned", "responded"}

(* how often the record x stands in the lists for v that the adapters      *)
(* 1..n returned                                                           *)
RECURSIVE ReturnedCount(_, _, _)
ReturnedCount(n, v, x) ==
    IF n = 0 THEN 0
    ELSE ReturnedCount(n - 1, v, x) +
         (IF ~tasks[n].result.exc /\ v \in DOMAIN tasks[n].result.data
          THEN Count(tasks[n].result.data[v], x) ELSE 0)

(* C7: when some adapters of a category fail, Datafetch._fetch still waits *)
(* for every adapter, returns normally, and its merged data holds every    *)
(* record (as often as returned) of each adapter that succeeded.           *)
C7_FailuresAreIsolated ==
    FetchIsBack =>
      /\ \A i \in DOMAIN tasks : tasks[i].st = "done"
      /\ fetched # None
      /\ \A i \in DOMAIN tasks :
           ~tasks[i].result.exc =>
             \A v \in DOMAIN tasks[i].result.data :
               /\ v \in DOMAIN fetched.data
               /\ \A j \in 1..Len(tasks[i].result.data[v]) :
                    LET x == tasks[i].result.data[v][j]
                    IN  Count(fetched.data[v], x) = ReturnedCount(Len(tasks), v, x)

(* The first adapter failed, the second returned records, _fetch is back.  *)
C7_Witness ==
    /\ fpc = "returned"
    /\ Len(tasks) = 2
    /\ tasks[1].result.exc
    /\ ~tasks[2].result.exc
    /\ DOMAIN tasks[2].result.data # {}

RealOf(list, r) ==
    {j \in 1..Len(list) : list[j].resource = r /\ ~IsPlaceholder(list[j])}
PlaceholdersOf(list, r) ==
    {j \in 1..Len(list) : list[j].resource = r /\ IsPlaceholder(list[j])}

(* C8: in the merged association result, every variant's list has an entry *)
(* of every configured resource (here: of every resource whose adapter     *)
(* returned): its real records where it matched the variant, and exactly   *)
(* one placeholder where it yielded no row for the variant.                *)
C8_EntryPerResource ==
    (FetchIsBack /\ resource_type = "assoc") =>
      \A v \in DOMAIN fetched.data :
        \A i \in DOMAIN tasks :
          ~tasks[i].result.exc =>
            LET r == assoc_resources[i].resource
                list == fetched.data[v]
            IN  /\ RealOf(list, r) \cup PlaceholdersOf(list, r) # {}
                /\ RealOf(list, r) = {} <=> Cardinality(PlaceholdersOf(list, r)) = 1
                /\ RealOf(list, r) # {} => PlaceholdersOf(list, r) = {}

PlaceholdersLast(list) ==
    \A i, j \in 1..Len(list) :
        (IsPlaceholder(list[i]) /\ ~IsPlaceholder(list[j])) => j < i

(* C9: in every per-variant association list that Datafetch._fetch returns *)
(* and in every per-variant association list of the response (LD records  *)
(* merged in and re-sorted), every placeholder comes after every real      *)
(* record.                                                                 *)
C9_PlaceholdersAfterReal ==
    /\ (FetchIsBack /\ resource_type = "assoc") =>
          \A v \in DOMAIN fetched.data : PlaceholdersLast(fetched.data[v])
    /\ (fpc = "responded" /\ response.out = "returned") =>
          \A v \in DOMAIN response.data : PlaceholdersLast(response.data[v].assoc.data)

(* A response whose list for v1 holds records of both adapters, both       *)
(* placeholders (the first adapter's stood before the second adapter's     *)
(* records when the lists were joined) and an LD record.                   *)
C9_Witness ==
    /\ fpc = "responded"
    /\ resource_type = "assoc"
    /\ response.out = "returned"
    /\ str(V1) \in DOMAIN response.data
    /\ LET list == response.data[str(V1)].assoc.data
       IN  /\ \A i \in DOMAIN assoc_resources :
                 /\ RealOf(list, assoc_resources[i].resource) # {}
                 /\ PlaceholdersOf(list, assoc_resources[i].resource) # {}
           /\ \E j \in 1..Len(list) : ~IsPlaceholder(list[j]) /\ list[j].ld

NonIncreasingPip(list) ==
    \A i, j \in 1..Len(list) : i < j => ~Less(list[i].pip, list[j].pip)

(* C10: every per-variant fine-mapping list that Datafetch._fetch returns, *)
(* and that the response carries unchanged, is ordered by non-increasing   *)
(* posterior inclusion probability.                                        *)
C10_FinemappedByPip ==
    /\ (FetchIsBack /\ resource_type = "finemapped") =>
          \A v \in DOMAIN fetched.data : NonIncreasingPip(fetched.data[v])
    /\ (fpc = "responded" /\ response.out = "returned") =>
          \A v \in DOMAIN response.data :
              NonIncreasingPip(response.data[v].finemapped.data)

NonIncreasingMlog10p(list) ==
    \A i, j \in 1..Len(list) : i < j => ~Less(list[i].mlog10p, list[j].mlog10p)

(* C11: every per-variant association list is ordered by non-increasing    *)
(* mlog10p, as Datafetch._fetch returns it and in the response after the   *)
(* LD records are merged in.                                               *)
C11_AssocByMlog10p ==
    /\ (FetchIsBack /\ resource_type = "assoc") =>
          \A v \in DOMAIN fetched.data : NonIncreasingMlog10p(fetched.data[v])
    /\ (fpc = "responded" /\ response.out = "returned") =>
          \A v \in DOMAIN response.data :
              NonIncreasingMlog10p(response.data[v].assoc.data)

(* A response in which the list of some variant holds records of two       *)
(* adapters with different mlog10p (the first adapter's placeholder stood  *)
(* between them when the lists were joined) and an LD record more          *)
(* significant than both.                                                  *)
C11_Witness ==
    /\ fpc = "responded"
    /\ resource_type = "assoc"
    /\ response.out = "returned"
    /\ \E v \in DOMAIN response.data :
         LET list == response.data[v].assoc.data
         IN  \E a, b, c \in 1..Len(list) :
               /\ ~IsPlaceholder(list[a]) /\ ~IsPlaceholder(list[b])
               /\ ~IsPlaceholder(list[c])
               /\ list[c].ld
               /\ list[a].resource = assoc_resources[1].resource
               /\ list[b].resource = assoc_resources[2].resource
               /\ Less(list[b].mlog10p, list[a].mlog10p)
               /\ Less(list[a].mlog10p, list[c].mlog10p)

Requested == {str(v) : v \in variants.list}

(* C12: when Datafetch.fetch_variants is called with a variant list, every *)
(* key and every record of the returned data, in both categories, is of a  *)
(* requested variant, and 'resources' names only resources with a record   *)
(* of a requested variant.                                                 *)
C12_OnlyRequestedVariants ==
    (FetchIsBack /\ variants # None) =>
      /\ DOMAIN fetched.data \subseteq Requested
      /\ \A k \in DOMAIN fetched.data : \A j \in 1..Len(fetched.data[k]) :
           ~IsPlaceholder(fetched.data[k][j]) => fetched.data[k][j].variant \in Requested
      /\ fetched.resources \subseteq
           UNION {{fetched.data[k][j].resource : j \in 1..Len(fetched.data[k])} :
                     k \in DOMAIN fetched.data \cap Requested}

(* C13: in the merged map of Datafetch._fetch every real record stored     *)
(* under key k has variant field k, so records of variants that differ in  *)
(* a field (1:1000:A:T and 1:1000:A:C) never share a key.                  *)
C13_KeyIsRecordVariant ==
    FetchIsBack =>
      \A k \in DOMAIN fetched.data : \A j \in 1..Len(fetched.data[k]) :
         ~IsPlaceholder(fetched.data[k][j]) => fetched.data[k][j].variant = k

(* Two adapters returned records of the two alleles at one position and    *)
(* the merged map holds both keys.                                         *)
C13_Witness ==
    /\ fpc = "returned"
    /\ Len(tasks) = 2
    /\ ~tasks[1].result.exc /\ str(V1) \in DOMAIN tasks[1].result.data
    /\ ~tasks[2].result.exc /\ str(V1c) \in DOMAIN tasks[2].result.data
    /\ {str(V1), str(V1c)} \subseteq DOMAIN fetched.data

(***************************************************************************)
(* SpecHandler: the request handlers of app/server.py.                     *)
(*                                                                         *)
(* A query text is the sequence of its lines, a line the sequence of its   *)
(* fields: what sep_re_line and sep_re_delim split the stripped text into. *)
(***************************************************************************)
MaxLines == 3

max_query_variants == 2

RS1 == "rs11"

Lines ==
    { <<str(V1)>>, <<str(V2)>>, <<RS1>>, <<"brca2">>,
      <<str(V1), "2">>, <<str(V2), "2">>, <<str(V2), "x">>,
      <<str(V1), "2", "c">>, <<RS1, "2", "c">>,
      <<str(V1), str(V2), RS1>> }

QueryTexts == UNION {[1..n -> Lines] : n \in 0..MaxLines}

Raise(name, msg) == [exc |-> TRUE, name |-> name, msg |-> msg]

formats_message ==
    "Oops, I cannot parse that. Try providing either one variant per line or all variants in one line separated by space or comma. Or variant, beta, and optionally any custom value separated by space or comma on each line."

beta_message(e) ==
    "Oops, I cannot parse that. Looks like some beta value is not numeric in the input: " \o e

\* What the body of the loop of parse_query raises on one line.
line_error(s, len_first) ==
    IF Len(s) < 2 THEN "IndexError"
    ELSE IF float(s[2]) = ValueError THEN "ValueError"
    ELSE IF len_first > 2 /\ Len(s) < 3 THEN "IndexError"
    ELSE "none"

RECURSIVE flatten(_)
flatten(lines) ==
    IF lines = <<>> THEN <<>> ELSE Head(lines) \o flatten(Tail(lines))

\* list(dict.fromkeys(items)): the first occurrence of each item, in order.
RECURSIVE fromkeys(_)
fromkeys(items) ==
    IF items = <<>> THEN <<>>
    ELSE LET front == fromkeys(SubSeq(items, 1, Len(items) - 1))
             last == items[Len(items)]
         IN IF \E i \in 1..Len(front) : front[i] = last
            THEN front ELSE Append(front, last)

parse_query(query) ==
    LET len_first == IF query = <<>> THEN 1 ELSE Len(query[1])
        bad == {i \in 1..Len(query) : line_error(query[i], len_first) # "none"}
        first == CHOOSE i \in bad : \A j \in bad : i <= j
    IN IF len_first > 1
       THEN IF bad = {}
            THEN [exc |-> FALSE, mode |-> "group",
                  input |-> [i \in 1..Len(query) |->
                      [var |-> query[i][1], beta |-> float(query[i][2]),
                       custom |-> IF len_first > 2
                                  THEN [t |-> "str", s |-> query[i][3]]
                                  ELSE None]]]
            ELSE IF line_error(query[first], len_first) = "IndexError"
                 THEN Raise("ParseException", formats_message)
                 ELSE Raise("ParseException",
                            beta_message("could not convert string to float: '"
                                         \o query[first][2] \o "'"))
       ELSE LET vars_ == fromkeys(flatten(query))
            IN [exc |-> FALSE, mode |-> "single",
                input |-> [i \in 1..Len(vars_) |->
                    [var |-> vars_[i], beta |-> Float(0), custom |-> None]]]

\* Variant(text): the variant a text denotes, or ParseException.
KnownVariants == {V1, V1c, V2}

parse_variant(text) ==
    IF \E v \in KnownVariants : str(v) = text
    THEN CHOOSE v \in KnownVariants : str(v) = text
    ELSE Raise("ParseException", "")

looks_like_a_gene(query) ==
    IF Len(query) # 1 THEN FALSE
    ELSE IF Len(query[1]) = 1 /\ parse_variant(query[1][1]) \in KnownVariants
         THEN FALSE
         ELSE query[1][1] # RS1


\* rsid_db.get_variants_by_rsid against a database content db.
get_variants_by_rsid(db, rsid) ==
    IF rsid \in DOMAIN db THEN [exc |-> FALSE, vars |-> db[rsid]]
    ELSE Raise("ParseException", "")

RsidDBs == {[r \in {RS1} |-> vs] : vs \in {{V1}, {V1, V1c}}}

geneUpperToRange == [g \in {"BRCA2"} |-> [chr |-> "13", start |-> 10, end |-> 20]]

upper(gene) == IF gene = "brca2" THEN "BRCA2" ELSE gene

get_gene_range_case_sensitive(gene) ==
    IF gene \notin DOMAIN geneUpperToRange
    THEN Raise("GeneNotFoundException", "Gene " \o gene \o " not found")
    ELSE geneUpperToRange[gene]

get_gene_range(gene) ==
    IF upper(gene) \notin DOMAIN geneUpperToRange
    THEN Raise("GeneNotFoundException", "Gene " \o gene \o " not found")
    ELSE geneUpperToRange[upper(gene)]

RECURSIVE join(_)
join(fields) ==
    IF Len(fields) = 1 THEN fields[1]
    ELSE fields[1] \o " " \o join(Tail(fields))

\* What the caller receives: the status, the texts of the body (or of the
\* streamed chunks), and the exception that left the handler, if one did.
JSONResponse(message, status_code) ==
    [status |-> status_code, text |-> <<message>>, exception |-> ""]

\* An exception that leaves the handler: no exception handler is registered
\* on the application, whose default reply is a plain 500.
Escaped(e) ==
    [status |-> 500, text |-> <<"Internal Server Error">>, exception |-> e.name]

\* The standard error output of the external tabix tool.
ErrTexts == {"[tabix] the index file is older", "[tabix] failed to open"}

ToolRuns ==
    {[returncode |-> 0, stderr |-> "", stdout |-> TRUE],
     [returncode |-> 0, stderr |-> "", stdout |-> FALSE]}
    \cup {[returncode |-> 1, stderr |-> e, stdout |-> FALSE] : e \in ErrTexts \cup {""}}
    \cup {[returncode |-> 0, stderr |-> e, stdout |-> TRUE] : e \in ErrTexts}

Ok == [exc |-> FALSE]

failed(tool) == tool.returncode # 0 \/ tool.stderr # ""

\* stderr.decode() if stderr else "Non-zero return code from tabix"
error_text(tool) ==
    IF tool.stderr # "" THEN tool.stderr ELSE "Non-zero return code from tabix"

\* GnomAD._fetch: what it returns or raises for one run of the tool.
gnomad_outcome(tool, vs) ==
    IF failed(tool)
    THEN Raise("DataException", error_text(tool))
    ELSE IF ~tool.stdout
    THEN Raise("VariantNotFoundException", "No variants found")
    ELSE IF vs # None /\ vs.list = {}
    THEN Raise("VariantNotFoundException", "No variants found")
    ELSE Ok

\* LDDatafetch.fetch_variants.
ld_outcome(tool) ==
    IF failed(tool)
    THEN Raise("DataException", error_text(tool))
    ELSE Ok

\* Datafetch._fetch: an adapter's exception is logged and skipped.
datafetch_outcome(tool) == Ok

outcome(c, tool, vs) ==
    CASE c = "gnomad" -> gnomad_outcome(tool, vs)
      [] c = "ld_assoc" -> ld_outcome(tool)
      [] OTHER -> datafetch_outcome(tool)

Query(c, mode, arg) == [category |-> c, mode |-> mode, arg |-> arg]

maximum_message ==
    "a maximum of " \o ToString(max_query_variants) \o " variants are accepted"


\* The variants of one parsed item (server.py, the loop over parsed[1]):
\* the variant itself, else what the rsid resolves to, else unparsed.
item_variants(db, text) ==
    IF parse_variant(text) \in KnownVariants THEN {parse_variant(text)}
    ELSE IF ~get_variants_by_rsid(db, text).exc
         THEN get_variants_by_rsid(db, text).vars
         ELSE {}

input_variants(db, parsed) ==
    UNION {item_variants(db, parsed.input[i].var) : i \in 1..Len(parsed.input)}

over_limit_never(parsed) == FALSE

over_limit(parsed) == Len(parsed.input) > max_query_variants

\* gene_results up to its first await.
gene_results_start(gene) ==
    LET r == get_gene_range(gene)
    IN IF r \notin {geneUpperToRange[g] : g \in DOMAIN geneUpperToRange}
       THEN /\ hpc' = "done"
            /\ reply' = JSONResponse(r.msg, 404)
            /\ UNCHANGED <<category, issued>>
       ELSE /\ hpc' = "gene"
            /\ category' = [category EXCEPT !["gnomad"] = "running"]
            /\ issued' = issued \cup {Query("gnomad", "ranges", r)}
            /\ UNCHANGED reply

\* POST /api/v1/results up to its first await.
results(query, db) ==
    /\ hpc = "idle"
    /\ request' = [endpoint |-> "results", query |-> query, db |-> db]
    /\ IF looks_like_a_gene(query)
       THEN gene_results_start(join(query[1])) /\ UNCHANGED input_variants_list
       ELSE LET parsed == parse_query(query)
            IN IF parsed.exc
               THEN /\ hpc' = "done"
                    /\ reply' = JSONResponse(parsed.msg, 400)
                    /\ UNCHANGED <<input_variants_list, category, issued>>
               ELSE IF over_limit(parsed)
               THEN /\ hpc' = "done"
                    /\ reply' = JSONResponse(maximum_message, 400)
                    /\ UNCHANGED <<input_variants_list, category, issued>>
               ELSE LET vs == [t |-> "list", list |-> input_variants(db, parsed)]
                    IN /\ hpc' = "gather"
                       /\ input_variants_list' = vs
                       /\ category' = [c \in Categories |-> "running"]
                       /\ issued' = issued \cup
                              {Query(c, "variants", vs.list) : c \in Categories}
                       /\ UNCHANGED reply
    /\ UNCHANGED <<logged, notHandler>>

\* One of the four fetches awaited by asyncio.gather in results finishes.
\* The first exception leaves gather, and the handler, at once.
gather_done(c, tool) ==
    /\ hpc = "gather"
    /\ category[c] = "running"
    /\ category' = [category EXCEPT ![c] = "done"]
    /\ LET out == outcome(c, tool, input_variants_list)
       IN IF out.exc
          THEN hpc' = "done" /\ reply' = Escaped(out)
          ELSE /\ hpc' = IF \A d \in Categories \ {c} : category[d] = "done"
                         THEN "assemble" ELSE "gather"
               /\ UNCHANGED reply
    /\ logged' = IF failed(tool) THEN logged \cup {error_text(tool)} ELSE logged
    /\ UNCHANGED <<request, input_variants_list, issued, notHandler>>

\* The fetch gene_results is awaiting finishes: gnomad, then finemapped,
\* then assoc, each started when the one before it has returned.
gene_done(c, tool) ==
    /\ hpc = "gene"
    /\ category[c] = "running"
    /\ LET out == outcome(c, tool, None)
           r == get_gene_range(join(request.query[1]))
           next == IF c = "gnomad" THEN "finemapped" ELSE "assoc"
       IN IF out.exc /\ c = "gnomad" /\ out.name = "VariantNotFoundException"
          THEN /\ hpc' = "done"
               /\ reply' = JSONResponse("No variants found for gene "
                                        \o join(request.query[1]), 404)
               /\ category' = [category EXCEPT ![c] = "done"]
               /\ UNCHANGED issued
          ELSE IF out.exc /\ c # "gnomad" /\ out.name = "DataException"
          THEN /\ hpc' = "done"
               /\ reply' = JSONResponse(out.msg, 500)
               /\ category' = [category EXCEPT ![c] = "done"]
               /\ UNCHANGED issued
          ELSE IF out.exc
          THEN /\ hpc' = "done"
               /\ reply' = Escaped(out)
               /\ category' = [category EXCEPT ![c] = "done"]
               /\ UNCHANGED issued
          ELSE IF c = "assoc"
          THEN /\ hpc' = "assemble"
               /\ category' = [category EXCEPT ![c] = "done"]
               /\ UNCHANGED <<reply, issued>>
          ELSE /\ category' = [category EXCEPT ![c] = "done", ![next] = "running"]
               /\ issued' = issued \cup {Query(next, "ranges", r)}
               /\ UNCHANGED <<hpc, reply>>
    /\ logged' = IF failed(tool) THEN logged \cup {error_text(tool)} ELSE logged
    /\ UNCHANGED <<request, input_variants_list, notHandler>>

\* The rest of results / gene_results after the fetches: the phenotype
\* metadata lookup and the final JSONResponse.
assemble(meta_ok) ==
    /\ hpc = "assemble"
    /\ hpc' = "done"
    /\ reply' =
          IF ~meta_ok THEN JSONResponse("metadata not found", 500)
          ELSE IF input_variants_list # None
                  /\ parse_query(request.query).input = <<>>
          THEN Escaped(Raise("IndexError", "list index out of range"))
          ELSE [status |-> 200, text |-> <<"data">>, exception |-> ""]
    /\ logged' = IF meta_ok THEN logged ELSE logged \cup {"metadata not found"}
    /\ UNCHANGED <<request, input_variants_list, category, issued, notHandler>>


failure_marker == "!error: failed to read"

\* The chunks iter_stdout yields for one run of the tool: what the tool
\* wrote to its standard output, then the marker if it failed.
iter_stdout_stderr(tool) ==
    (IF tool.stdout THEN <<"rows">> ELSE <<>>)
    \o (IF tool.returncode # 0 THEN <<tool.stderr>> ELSE <<>>)

iter_stdout(tool) ==
    (IF tool.stdout THEN <<"rows">> ELSE <<>>)
    \o (IF tool.returncode # 0 THEN <<failure_marker>> ELSE <<>>)

stream_tabix_response(file, region, tool) ==
    /\ issued' = issued \cup {Query(file, "region", region)}
    /\ reply' = [status |-> 200, text |-> iter_stdout(tool), exception |-> ""]
    /\ logged' = IF tool.returncode # 0
                 THEN logged \cup {tool.stderr} ELSE logged

Genes == {"BRCA2", "brca2", "XYZ"}

Paddings == {-1, 0, 1}

\* GET /api/v1/gene_model_by_gene/{gene}/{padding}
gene_model_by_gene(gene, padding, tool) ==
    /\ hpc = "idle"
    /\ hpc' = "done"
    /\ request' = [endpoint |-> "gene_model_by_gene", gene |-> gene,
                   padding |-> padding]
    /\ LET r == get_gene_range(upper(gene))
       IN IF padding < 0
          THEN /\ reply' = JSONResponse("padding must be non-negative", 400)
               /\ UNCHANGED <<issued, logged>>
          ELSE IF upper(gene) \notin DOMAIN geneUpperToRange
          THEN /\ reply' = JSONResponse(r.msg, 404)
               /\ UNCHANGED <<issued, logged>>
          ELSE stream_tabix_response("model_file",
                   [chr |-> r.chr, start |-> r.start - padding,
                    end |-> r.end + padding], tool)
    /\ UNCHANGED <<input_variants_list, category, notHandler>>

\* GET /api/v1/gene_cs/{gene}?padding=
gene_cs(gene, padding, tool) ==
    /\ hpc = "idle"
    /\ hpc' = "done"
    /\ request' = [endpoint |-> "gene_cs", gene |-> gene, padding |-> padding]
    /\ LET r == get_gene_range(upper(gene))
       IN IF upper(gene) \notin DOMAIN geneUpperToRange
          THEN /\ reply' = JSONResponse(r.msg, 404)
               /\ UNCHANGED <<issued, logged>>
          ELSE stream_tabix_response("finemapped",
                   [chr |-> r.chr, start |-> r.start - padding,
                    end |-> r.end + padding], tool)
    /\ UNCHANGED <<input_variants_list, category, notHandler>>

\* GET /api/v1/gene_cs_trans/{gene}
gene_cs_trans(gene, tool) ==
    /\ hpc = "idle"
    /\ hpc' = "done"
    /\ request' = [endpoint |-> "gene_cs_trans", gene |-> gene]
    /\ LET r == get_gene_range(upper(gene))
       IN IF upper(gene) \notin DOMAIN geneUpperToRange
          THEN /\ reply' = JSONResponse(r.msg, 404)
               /\ UNCHANGED <<issued, logged>>
          ELSE stream_tabix_response("trans_file",
                   [chr |-> r.chr, start |-> r.start, end |-> r.start], tool)
    /\ UNCHANGED <<input_variants_list, category, notHandler>>

\* POST /api/v1/variant_annotation: the header line, the lines of the
\* requested variants, then the marker if the tool failed.
variant_annotation(vs, tool) ==
    /\ hpc = "idle"
    /\ hpc' = "done"
    /\ request' = [endpoint |-> "variant_annotation", variants |-> vs]
    /\ issued' = issued \cup {Query("gnomad", "variants", vs)}
    /\ reply' = [status |-> 200, exception |-> "",
                 text |-> (IF tool.stdout THEN <<"header">> ELSE <<>>)
                          \o (IF tool.stdout /\ vs # {} THEN <<"rows">> ELSE <<>>)
                          \o (IF tool.returncode # 0
                              THEN <<failure_marker>> ELSE <<>>)]
    /\ logged' = IF tool.returncode # 0
                 THEN logged \cup {tool.stderr} ELSE logged
    /\ UNCHANGED <<input_variants_list, category, notHandler>>

\* The next request arrives.
next_request ==
    /\ hpc = "done"
    /\ hpc' = "idle"
    /\ request' = None
    /\ input_variants_list' = None
    /\ category' = [c \in Categories |-> "idle"]
    /\ issued' = {}
    /\ reply' = None
    /\ logged' = {}
    /\ UNCHANGED notHandler

NextHandler ==
    \/ \E query \in QueryTexts, db \in RsidDBs : results(query, db)
    \/ \E c \in Categories, tool \in ToolRuns : gather_done(c, tool)
    \/ \E c \in Categories, tool \in ToolRuns : gene_done(c, tool)
    \/ \E meta_ok \in BOOLEAN : assemble(meta_ok)
    \/ \E gene \in Genes, padding \in Paddings, tool \in ToolRuns :
          gene_model_by_gene(gene, padding, tool)
    \/ \E gene \in Genes, padding \in Paddings, tool \in ToolRuns :
          gene_cs(gene, padding, tool)
    \/ \E gene \in Genes, tool \in ToolRuns : gene_cs_trans(gene, tool)
    \/ \E vs \in SUBSET Variants, tool \in ToolRuns : variant_annotation(vs, tool)
    \/ next_request

SpecHandler == Init /\ [][NextHandler]_vars


(***************************************************************************)
(* Claims about the request handlers (SpecHandler).                        *)
(***************************************************************************)
IsResults == request # None /\ request.endpoint = "results"

\* The two list forms of a query text: one variant per line, or variant,
\* numeric beta and possibly a custom value on each line.
OnePerLine(q) == q # <<>> /\ \A i \in 1..Len(q) : Len(q[i]) = 1

VariantBetaLines(q) ==
    /\ q # <<>>
    /\ \A i \in 1..Len(q) :
          /\ Len(q[i]) \in {2, 3}
          /\ Len(q[i]) = Len(q[1])
          /\ float(q[i][2]) # ValueError

\* Its number of items: the distinct variants of a plain list, the lines
\* of a list with betas.
Items(q) ==
    IF OnePerLine(q) THEN Cardinality({q[i][1] : i \in 1..Len(q)}) ELSE Len(q)

OverLimit ==
    /\ IsResults
    /\ OnePerLine(request.query) \/ VariantBetaLines(request.query)
    /\ Items(request.query) > max_query_variants

C15_DispatchedWithinLimit ==
    input_variants_list # None =>
        Cardinality(input_variants_list.list) <= max_query_variants


\* C16: every failure while results serves a variant-list request (the
\* frequency store matching no requested variant, a tool failure in the
\* frequency or the LD-association fetch, an empty list of parsed variants)
\* ends in an error reply the handler produced: no exception leaves it.
C16_NoExceptionEscapes ==
    (IsResults /\ input_variants_list # None /\ reply # None) =>
        reply.exception = ""

\* C17: no reply body and no streamed chunk holds the error output of the
\* tabix tool or an exception text made from it; what the caller receives
\* is the same whatever the tool wrote to its standard error.
C17_NoToolTextInReply ==
    reply # None => \A i \in 1..Len(reply.text) : reply.text[i] \notin ErrTexts

C17_Witness ==
    /\ reply # None
    /\ logged \cap ErrTexts # {}
    /\ \/ reply.text = <<failure_marker>>
       \/ reply.exception = "DataException"


MainCategories == {"gnomad", "assoc", "finemapped"}

\* C18: in variant-list mode and in gene mode alike, the frequency,
\* association and fine-mapping fetches of a request are started without
\* one waiting for another to complete (once one is running or done, none
\* is still to be started), and the reply is assembled only when all three
\* have completed.
C18_CategoriesStartTogether ==
    /\ (\E c \in MainCategories : category[c] # "idle") =>
           \A c \in MainCategories : category[c] # "idle"
    /\ hpc = "assemble" => \A c \in MainCategories : category[c] = "done"


IsPadded ==
    /\ request # None
    /\ request.endpoint \in {"gene_model_by_gene", "gene_cs"}
    /\ upper(request.gene) \in DOMAIN geneUpperToRange
    /\ reply # None

\* C19: gene_model_by_gene and gene_cs, the endpoints that take a padding p
\* for a gene, query the interval (chr, start - p, end + p) of the gene's
\* stored (chr, start, end) when p >= 0, and reject the request without a
\* store query when p < 0.
C19_PaddingApplied ==
    IsPadded =>
        LET g == geneUpperToRange[upper(request.gene)]
            p == request.padding
        IN IF p >= 0
           THEN /\ Cardinality(issued) = 1
                /\ \A q \in issued :
                      q.arg = [chr |-> g.chr, start |-> g.start - p,
                               end |-> g.end + p]
           ELSE issued = {} /\ reply.status = 400


IsVariantText(t) == t = RS1 \/ \E v \in KnownVariants : str(v) = t

\* The accepted formats: one variant per field, or on each line a variant,
\* a numeric beta and possibly a custom value, with the field count of the
\* first line.
OneVariantPerField(q) ==
    \A i \in 1..Len(q) : \A j \in 1..Len(q[i]) : IsVariantText(q[i][j])

VariantBetaCustom(q) ==
    VariantBetaLines(q) /\ \A i \in 1..Len(q) : IsVariantText(q[i][1])

\* A variant-list text in neither format (a text of one field is a gene or
\* a variant, the empty text is no list).
Malformed(q) ==
    /\ q # <<>>
    /\ ~(Len(q) = 1 /\ Len(q[1]) = 1)
    /\ ~OneVariantPerField(q)
    /\ ~VariantBetaCustom(q)

\* C20: a variant-list query whose text is in none of the accepted formats
\* is answered with an error whose message names the accepted formats, and
\* no resource query is issued for it: lines with missing fields,
\* non-numeric betas and lines whose field count differs from the first
\* line's included.
C20_MalformedRejected ==
    (IsResults /\ Malformed(request.query)) =>
        /\ hpc = "done"
        /\ reply = JSONResponse(formats_message, 400)
        /\ issued = {}

(***************************************************************************)
(* SpecAdapter: construction of the per-resource adapters,                 *)
(* DatafetchSingleResource.__new__ and __init__, called by Datafetch for   *)
(* every configured resource.                                              *)
(***************************************************************************)
MaxInits == 2

\* A resource of the configuration: its id and its file.
ResourceDescriptors ==
    {[resource |-> id, file |-> f] : id \in ResourceIds, f \in {"a.gz", "b.gz"}}

\* What the file system holds for the file at the time of the call: the
\* file cannot be opened, its index is missing, or both are there and the
\* file has the given header line.
FileStates ==
    {[readable |-> FALSE, index |-> TRUE, headers |-> <<>>]}
    \cup {[readable |-> TRUE, index |-> ix, headers |-> h] :
              ix \in BOOLEAN, h \in {<<"#chr", "pos">>, <<"#chr", "pos", "beta">>}}

\* __new__: the instance of the key, created on first use.
new_instance(key) ==
    IF _instances[key] = Absent
    THEN [t |-> "adapter", _initialized |-> FALSE, resource |-> None,
          filename |-> None, headers |-> None]
    ELSE _instances[key]

already_initialized_never(inst) == FALSE

already_initialized(inst) == inst._initialized

\* _init_tabix: the attributes set before it returns or raises.
_init_tabix(inst, filename, fs) ==
    IF ~fs.readable
    THEN [inst |-> [inst EXCEPT !.filename = filename], outcome |-> "OSError"]
    ELSE IF ~fs.index
    THEN [inst |-> [inst EXCEPT !.filename = filename],
          outcome |-> "DataException: index file does not exist"]
    ELSE [inst |-> [inst EXCEPT !.filename = filename, !.headers = fs.headers],
          outcome |-> "ok"]

\* DatafetchSingleResource(resource_type, resource): __new__, then __init__.
Construct(rt, resource, fs) ==
    LET key == instance_key(rt, resource.resource)
        inst == new_instance(key)
        tabix == _init_tabix([inst EXCEPT !.resource = resource],
                             resource.file, fs)
    IN /\ ninit[key] < MaxInits
       /\ IF already_initialized(inst)
          THEN /\ _instances' = [_instances EXCEPT ![key] = inst]
               /\ constructed' = [key |-> key, resource |-> resource,
                                  outcome |-> "DataException: already initialized"]
               /\ UNCHANGED ninit
          ELSE /\ _instances' = [_instances EXCEPT ![key] =
                       IF tabix.outcome = "ok"
                       THEN [tabix.inst EXCEPT !._initialized = TRUE]
                       ELSE tabix.inst]
               /\ constructed' = [key |-> key, resource |-> resource,
                                  outcome |-> tabix.outcome]
               /\ ninit' = IF tabix.outcome = "ok"
                           THEN [ninit EXCEPT ![key] = @ + 1] ELSE ninit
       /\ UNCHANGED notAdapter

NextAdapter ==
    \E rt \in ResourceTypes, resource \in ResourceDescriptors, fs \in FileStates :
        Construct(rt, resource, fs)

SpecAdapter == Init /\ [][NextAdapter]_vars

IsInitialized(inst) == inst # Absent /\ inst._initialized

\* C21: for each (category, resource id) the adapter is initialized at most
\* once; a construction for a key whose adapter is initialized raises, and
\* leaves that adapter's file name, header map and resource descriptor as
\* they were.
C21_InitializedOnce ==
    /\ [](\A k \in InstanceKeys : ninit[k] <= 1)
    /\ [][\A k \in InstanceKeys :
            IsInitialized(_instances[k]) =>
                /\ _instances'[k] = _instances[k]
                /\ (constructed'.key = k /\ constructed' # constructed) =>
                       constructed'.outcome = "DataException: already initialized"]_vars

C21_Witness ==
    /\ constructed # None
    /\ constructed.outcome = "DataException: already initialized"
    /\ IsInitialized(_instances[constructed.key])
    /\ _instances[constructed.key].resource # constructed.resource
    /\ ninit[constructed.key] = 1

(***************************************************************************)
(* SpecRows: the row parsers of DatafetchSingleResource applied to the     *)
(* rows a file can hold, one call per step.                                *)
(***************************************************************************)
AssocRowInputs ==
    {AssocRow(v, trait, data_type, beta, se, mlog10p) :
        v \in {V1, V1c}, trait \in {"t1", "tx"}, data_type \in {"GWAS", "sQTL"},
        beta \in {"NA", "0", "2", "-2"}, se \in {"0", "1", "2"},
        mlog10p \in {"inf", "3", "NA"}}

FinemappedRowInputs ==
    {[FinemappedRow(V1, trait, data_type, method, mlog10p, pip)
         EXCEPT !.beta = beta] :
        trait \in {"t1", "tx"}, data_type \in {"gwas", "sQTL"},
        method \in {"SuSiE-inf", "SuSiE"}, mlog10p \in {"NA", "1"},
        pip \in {"9", "x"}, beta \in {"NA", "1"}}

ParseAssocRow(i, row, vs) ==
    /\ row_call = None
    /\ row_call' = [resource_type |-> "assoc", resource |-> assoc_resources[i],
                    row |-> row, variants |-> vs]
    /\ row_result' = _parse_assoc_row(assoc_resources[i], row, vs)
    /\ UNCHANGED notRow

ParseFinemappedRow(i, row) ==
    /\ row_call = None
    /\ row_call' = [resource_type |-> "finemapped",
                    resource |-> finemapped_resources[i],
                    row |-> row, variants |-> None]
    /\ row_result' = _parse_finemapped_row(finemapped_resources[i], row)
    /\ UNCHANGED notRow

\* The call has returned; the next row is parsed.
RowReturn ==
    /\ row_call # None
    /\ row_call' = None
    /\ row_result' = None
    /\ UNCHANGED notRow

NextRows ==
    \/ RowReturn
    \/ \E i \in 1..Len(assoc_resources), row \in AssocRowInputs, vs \in Queries :
          ParseAssocRow(i, row, vs)
    \/ \E i \in 1..Len(finemapped_resources), row \in FinemappedRowInputs :
          ParseFinemappedRow(i, row)

SpecRows == Init /\ [][NextRows]_vars

\* The filters of an adapter: the trait is not on the resource's
\* ignore-list, the effect size is not "NA", and a fine-mapping row of a
\* file with a method column is of the method SuSiE-inf.
PassesFilters(call) ==
    /\ call.row.trait \notin call.resource.ignore_phenos
    /\ call.row.beta # "NA"
    /\ (call.resource_type = "finemapped" /\ call.resource.method_header)
           => call.row.method = "SuSiE-inf"

RowOfQuery(call) ==
    call.variants = None
    \/ Variant(call.row.chr, call.row.pos, call.row.ref, call.row.alt)
           \in call.variants.list

\* C22: _parse_assoc_row and _parse_finemapped_row return a record for a
\* row if and only if the row passes every filter of the adapter (ignore-
\* list, effect size not "NA", declared method for a fine-mapping source);
\* stated for the rows of the queried variants whose numbers parse.
C22_RecordIffPassesFilters ==
    (row_call # None /\ RowOfQuery(row_call) /\ row_result.kind # "error") =>
        (row_result.kind = "record" <=> PassesFilters(row_call))

\* |beta| / se of a row doubled, the index into neg_log10_sf.
TwiceZ(row) == (2 * abs(float(row.beta)).n) \div float(row.se).n

FallbackCase ==
    /\ row_call # None
    /\ row_call.resource_type = "assoc"
    /\ row_call.row.mlog10p = "inf"
    /\ row_result.kind = "record"

\* C23 as stated: when the significance of a parsed association row is the
\* missing sentinel, the record's mlog10p is -log10(2 SF(|beta| / se)) of
\* the row's beta and se, never the sentinel; for beta 2.0 and se 1.0 it is
\* about 1.646.
C23_FallbackIs1646 ==
    FallbackCase =>
        /\ row_result.rec.mlog10p = Milli(neg_log10_sf[TwiceZ(row_call.row) + 1] - log10_2)
        /\ row_result.rec.mlog10p # inf
        /\ (row_call.row.beta = "2" /\ row_call.row.se = "1") =>
               /\ row_result.rec.mlog10p.n >= 1646 - 5
               /\ row_result.rec.mlog10p.n <= 1646 + 5

\* C23 amended: the same, the value for beta 2.0 and se 1.0 being about
\* 1.342, which is -log10(2 SF(2)).
C23_FallbackIsTwoSided ==
    FallbackCase =>
        /\ row_result.rec.mlog10p = Milli(neg_log10_sf[TwiceZ(row_call.row) + 1] - log10_2)
        /\ row_result.rec.mlog10p # inf
        /\ (row_call.row.beta = "2" /\ row_call.row.se = "1") =>
               /\ row_result.rec.mlog10p.n >= 1342 - 5
               /\ row_result.rec.mlog10p.n <= 1342 + 5

C23_Witness ==
    /\ FallbackCase
    /\ row_call.row.beta = "2"
    /\ row_call.row.se = "1"
    /\ row_result.rec.mlog10p = Milli(1342)

(***************************************************************************)
(* SpecGnomad: GnomAD._fetch from the rows tabix printed to its return     *)
(* value: the sub-datasets of each variant, popmax and popmin, the         *)
(* preferred sub-dataset, and summarize_freq over the batch.               *)
(***************************************************************************)
\* The AF_ columns of the file, in header order.
Pops == <<"afr", "nfe">>

\* The allele frequencies of a row, per population: None for "NA".
AFs ==
    { [afr |-> None, nfe |-> None],
      [afr |-> Float(0), nfe |-> Float(0)],
      [afr |-> Float(1), nfe |-> Float(1)],
      [afr |-> Float(0), nfe |-> Milli(500)],
      [afr |-> Milli(500), nfe |-> Float(0)] }

\* The fields of a row that the computation reads.
GnomadRows == {[AN |-> an, AF |-> af] : an \in {1, 2}, af \in AFs}

\* The rows of one variant: at most one with genome_or_exome "e", at most
\* one with "g", and possibly one with another value of that column.
VariantRows ==
    {r \in [exomes : GnomadRows \cup {None}, genomes : GnomadRows \cup {None},
            other : BOOLEAN] :
        r.exomes # None \/ r.genomes # None \/ r.other}

\* The rows of a batch, per variant in the order of the output.
Batches == UNION {[1..n -> VariantRows] : n \in 1..2}

\* popmax and popmin of a sub-dataset after the populations 1..i.
RECURSIVE popmax_upto(_, _)
popmax_upto(d, i) ==
    IF i = 0 THEN [pop |-> "NA", af |-> Float(0)]
    ELSE LET m == popmax_upto(d, i - 1)
             x == d.AF[Pops[i]]
         IN IF x # None /\ x.n > m.af.n THEN [pop |-> Pops[i], af |-> x] ELSE m

RECURSIVE popmin_upto(_, _)
popmin_upto(d, i) ==
    IF i = 0 THEN [pop |-> "NA", af |-> Float(1)]
    ELSE LET m == popmin_upto(d, i - 1)
             x == d.AF[Pops[i]]
         IN IF x # None /\ x.n < m.af.n THEN [pop |-> Pops[i], af |-> x] ELSE m

with_extremes(d) ==
    IF d = None THEN None
    ELSE [AN |-> d.AN, AF |-> d.AF, popmax |-> popmax_upto(d, Len(Pops)),
          popmin |-> popmin_upto(d, Len(Pops))]

preferred_exomes_first(r) ==
    IF r.exomes # None THEN "exomes" ELSE "genomes"

preferred(r) ==
    IF r.genomes = None \/ (r.exomes # None /\ r.exomes.AN > r.genomes.AN)
    THEN "exomes" ELSE "genomes"

\* gnomad_results after the two loops of _fetch.
gnomad_results(batch) ==
    [i \in 1..Len(batch) |->
        [exomes |-> with_extremes(batch[i].exomes),
         genomes |-> with_extremes(batch[i].genomes),
         preferred |-> preferred(batch[i])]]

\* c.get("exomes") or c.get("genomes")
exomes_or_genomes(c) == IF c.exomes # None THEN c.exomes ELSE c.genomes

HasAF(d, i) == d.AF[Pops[i]] # None

\* max(..., key=value, default=("", 0))[0]: the first population, in
\* header order, of the highest frequency that is not None.
max_freq(d) ==
    IF \A i \in 1..Len(Pops) : ~HasAF(d, i) THEN ""
    ELSE Pops[CHOOSE i \in 1..Len(Pops) :
                /\ HasAF(d, i)
                /\ \A j \in 1..Len(Pops) : HasAF(d, j) =>
                       \/ d.AF[Pops[j]].n < d.AF[Pops[i]].n
                       \/ d.AF[Pops[j]].n = d.AF[Pops[i]].n /\ i <= j]

min_freq(d) ==
    IF \A i \in 1..Len(Pops) : ~HasAF(d, i) THEN ""
    ELSE Pops[CHOOSE i \in 1..Len(Pops) :
                /\ HasAF(d, i)
                /\ \A j \in 1..Len(Pops) : HasAF(d, j) =>
                       \/ d.AF[Pops[j]].n > d.AF[Pops[i]].n
                       \/ d.AF[Pops[j]].n = d.AF[Pops[i]].n /\ i <= j]

\* summarize_freq: per population of the header, how many variants of the
\* batch have it as highest and as lowest, and those counts over the
\* number of variants (a ratio, numerator and denominator).
summarize_freq(data) ==
    IF \E i \in 1..Len(data) : exomes_or_genomes(data[i]) = None
    THEN Raise("AttributeError", "'NoneType' object has no attribute 'items'")
    ELSE LET maxn(pop) == Cardinality({i \in 1..Len(data) :
                              max_freq(exomes_or_genomes(data[i])) = pop})
             minn(pop) == Cardinality({i \in 1..Len(data) :
                              min_freq(exomes_or_genomes(data[i])) = pop})
         IN [exc |-> FALSE,
             summary |-> [p \in 1..Len(Pops) |->
                 [pop |-> Pops[p],
                  max |-> maxn(Pops[p]),
                  maxPerc |-> [num |-> maxn(Pops[p]), den |-> Len(data)],
                  min |-> minn(Pops[p]),
                  minPerc |-> [num |-> minn(Pops[p]), den |-> Len(data)]]]]

\* GnomAD._fetch on the rows of a batch.
gnomad_fetch(batch) ==
    LET data == gnomad_results(batch)
        s == summarize_freq(data)
    IN IF s.exc /\ s.name = "IndexError"
       THEN [exc |-> FALSE, data |-> data, freq_summary |-> <<>>]
       ELSE IF s.exc THEN s
       ELSE [exc |-> FALSE, data |-> data, freq_summary |-> s.summary]

GnomadFetch(batch) ==
    /\ gn_call = None
    /\ gn_call' = [t |-> "_fetch", rows |-> batch]
    /\ gn_result' = gnomad_fetch(batch)
    /\ UNCHANGED notGnomad

\* The call has returned; the next one is made.
GnomadReturn ==
    /\ gn_call # None
    /\ gn_call' = None
    /\ gn_result' = None
    /\ UNCHANGED notGnomad

NextGnomad ==
    \/ gn_call = None /\ \E batch \in Batches : GnomadFetch(batch)
    \/ GnomadReturn

SpecGnomad == Init /\ [][NextGnomad]_vars

GnomadReturned == gn_call # None /\ ~gn_result.exc

SubDatasetNames == {"exomes", "genomes"}

\* C24: for every variant of the frequency result, the recorded preferred
\* sub-dataset is present for the variant, and is the one with the higher
\* AN when both are present; it is a function of the two records.
C24_PreferredIsPresentHigherAN ==
    GnomadReturned =>
        \A i \in 1..Len(gn_result.data) :
            LET r == gn_result.data[i]
            IN /\ r.preferred \in SubDatasetNames
               /\ r[r.preferred] # None
               /\ (r.exomes # None /\ r.genomes # None) =>
                      \A ge \in SubDatasetNames : r[ge].AN <= r[r.preferred].AN
               /\ \A j \in 1..Len(gn_result.data) :
                      (gn_call.rows[j].exomes = gn_call.rows[i].exomes
                       /\ gn_call.rows[j].genomes = gn_call.rows[i].genomes) =>
                          gn_result.data[j].preferred = r.preferred

C24_Witness ==
    /\ GnomadReturned
    /\ \E i \in 1..Len(gn_result.data) :
          LET r == gn_result.data[i]
          IN /\ r.exomes # None /\ r.genomes # None
             /\ r.exomes.AN < r.genomes.AN
             /\ r.preferred = "genomes"
    /\ \E i \in 1..Len(gn_result.data) :
          LET r == gn_result.data[i]
          IN /\ r.exomes # None /\ r.genomes # None
             /\ r.exomes.AN > r.genomes.AN
             /\ r.preferred = "exomes"


\* The variant's record in its preferred sub-dataset.
PreferredRecord(r) == r[r.preferred]

\* How many variants of the returned batch have pop as the population of
\* the named extreme (popmax or popmin) in their preferred sub-dataset.
ExtremeCount(extreme, pop) ==
    Cardinality({i \in 1..Len(gn_result.data) :
        PreferredRecord(gn_result.data[i])[extreme].pop = pop})

RECURSIVE SumOver(_, _, _)
SumOver(summary, field, i) ==
    IF i = 0 THEN 0 ELSE summary[i][field] + SumOver(summary, field, i - 1)

\* C25: for every batch, the max (min) count reported for a population is
\* the number of variants whose popmax (popmin) population in the preferred
\* sub-dataset is that population, maxPerc and minPerc are that count over
\* the number of variants, and the counts of all populations sum to the
\* number of variants.
C25_SummaryCountsPreferredExtremes ==
    GnomadReturned =>
        LET n == Len(gn_result.data)
            s == gn_result.freq_summary
        IN /\ \A p \in 1..Len(s) :
                 /\ s[p].max = ExtremeCount("popmax", s[p].pop)
                 /\ s[p].min = ExtremeCount("popmin", s[p].pop)
                 /\ s[p].maxPerc = [num |-> ExtremeCount("popmax", s[p].pop), den |-> n]
                 /\ s[p].minPerc = [num |-> ExtremeCount("popmin", s[p].pop), den |-> n]
           /\ SumOver(s, "max", Len(s)) = n
           /\ SumOver(s, "min", Len(s)) = n

\* The frequencies of a sub-dataset that are not missing.
NonMissing(d) == {d.AF[Pops[i]].n : i \in {j \in 1..Len(Pops) : HasAF(d, j)}}

Attains(d, pop, af) ==
    \E i \in 1..Len(Pops) : Pops[i] = pop /\ HasAF(d, i) /\ d.AF[Pops[i]] = af

\* C26: for each present sub-dataset of each variant, popmax.af is the
\* maximum and popmin.af the minimum of the frequencies that are not
\* missing, popmax.pop and popmin.pop name a population with that value,
\* and popmin.af <= popmax.af, whatever the frequencies.
C26_ExtremesAreMaxAndMin ==
    GnomadReturned =>
        \A i \in 1..Len(gn_result.data) : \A ge \in SubDatasetNames :
            LET d == gn_result.data[i][ge]
            IN d # None =>
                /\ NonMissing(d) # {} =>
                      /\ \A x \in NonMissing(d) : x <= d.popmax.af.n
                      /\ \A x \in NonMissing(d) : x >= d.popmin.af.n
                      /\ Attains(d, d.popmax.pop, d.popmax.af)
                      /\ Attains(d, d.popmin.pop, d.popmin.af)
                /\ d.popmin.af.n <= d.popmax.af.n

\* C27: whenever the computation of the summary of a batch fails, _fetch
\* returns the frequency data of the variants with an empty freq_summary.
C27_SummaryFailureGivesEmptySummary ==
    (gn_call # None /\ summarize_freq(gnomad_results(gn_call.rows)).exc) =>
        /\ ~gn_result.exc
        /\ gn_result.data = gnomad_results(gn_call.rows)
        /\ gn_result.freq_summary = <<>>


(***************************************************************************)
(* Gene symbols (SpecHandler).                                             *)
(***************************************************************************)
\* The request in progress is a results request in gene mode.
GeneModeRequest ==
    request # None /\ request.endpoint = "results"
        /\ looks_like_a_gene(request.query)

GeneOfRequest == join(request.query[1])

\* The symbol is in the table, whatever its letter case.
KnownGene(g) == \E k \in DOMAIN geneUpperToRange : upper(g) = k

\* C28: get_gene_range returns the stored range of a symbol whatever its
\* letter case and raises GeneNotFoundException for a symbol that is not in
\* the table; a gene-mode request for an unknown gene is answered 404 with
\* no resource query issued, one for a known gene queries the stored range.
C28_GeneRangeCaseInsensitive ==
    /\ \A g \in Genes :
          IF KnownGene(g)
          THEN get_gene_range(g) = geneUpperToRange[upper(g)]
          ELSE get_gene_range(g) =
                   Raise("GeneNotFoundException", "Gene " \o g \o " not found")
    /\ GeneModeRequest =>
          IF KnownGene(GeneOfRequest)
          THEN /\ Query("gnomad", "ranges",
                        geneUpperToRange[upper(GeneOfRequest)]) \in issued
               /\ \A q \in issued :
                     q.arg = geneUpperToRange[upper(GeneOfRequest)]
          ELSE /\ hpc = "done"
               /\ reply = JSONResponse("Gene " \o GeneOfRequest \o " not found", 404)
               /\ issued = {}
               /\ \A c \in Categories : category[c] = "idle"

C28_Witness ==
    /\ GeneModeRequest
    /\ ~KnownGene(GeneOfRequest)
    /\ reply # None
    /\ reply.status = 404
    /\ issued = {}


(***************************************************************************)
(* The wrapper around a cached fetch (SpecWrap).                           *)
(***************************************************************************)
\* The step is a call of the wrapper.
WrapperStep == clock' = clock + 1 /\ ret'.call = "wrapper"

\* The entry of the call's key can be read back before the call.
EntryBefore == ret'.key \in DOMAIN files /\ files[ret'.key].kind = "json"

\* C29: a call of a cached fetch that finds its entry returns it without
\* invoking the underlying fetch; one that finds none invokes the fetch
\* once and, when the fetch returns, its result is stored under the key of
\* the call; when the fetch raises, the exception reaches the caller and
\* nothing is stored under that key.
C29_WrapperGetFetchSet ==
    [][WrapperStep =>
         /\ ret'.key = _get_cache_key(config, ret'.func, ret'.args)
         /\ EntryBefore =>
               /\ ret'.hit /\ ~ret'.fetched
               /\ ret'.out = "returned"
               /\ ret'.value = files[ret'.key].value
         /\ ~EntryBefore =>
               /\ ~ret'.hit /\ ret'.fetched
               /\ ret'.out = "returned" =>
                     /\ ret'.key \in DOMAIN files'
                     /\ files'[ret'.key].kind = "json"
                     /\ files'[ret'.key].value = ret'.value
               /\ ret'.out = "raised" =>
                     /\ ret'.exc = "FetchError"
                     /\ ret'.key \notin DOMAIN files']_vars

C29_Witness ==
    /\ ret.call = "wrapper"
    /\ ret.hit
    /\ ~ret.fetched
    /\ ret.key \in DOMAIN files
    /\ \E k \in DOMAIN files : k # ret.key


(***************************************************************************)
(* SpecGene: gene_results from the results of its three range fetches to   *)
(* the data of its reply.                                                  *)
(***************************************************************************)
coding_set == {"missense", "stop gained"}

\* c["gene_symbol"] is None, or c has no gene_symbol.
no_gene_symbol == "None"

Csq(gene_symbol, consequence) ==
    [gene_symbol |-> gene_symbol, consequence |-> consequence]

\* The consequences of an exomes row, as _group_gnomad_consequences
\* returns them.
ConsequenceLists ==
    { <<>>,
      <<Csq("BRCA2", "missense")>>,
      <<Csq("BRCA2", "intron")>>,
      <<Csq("TP53", "missense")>>,
      <<Csq(no_gene_symbol, "missense")>>,
      <<Csq("BRCA2", "missense"), Csq("BRCA2", "stop gained")>>,
      <<Csq("TP53", "missense"), Csq("BRCA2", "stop gained")>> }

\* The rows of the frequency file in the range, per variant: the gene of
\* the most severe consequence and the exomes record, if there is one.
GnomadRangeRows ==
    [gene_most_severe : {"BRCA2", "TP53"},
     exomes : {None} \cup {[consequences |-> l] : l \in ConsequenceLists}]

\* The records of a variant in the fine-mapping and association results.
FinemappedLists == {<<>>, <<"f1">>, <<"f1", "f2">>}

AssocLists == {<<>>, <<"a1", "NA">>}

GeneVariants == <<str(V1), str(V2)>>

\* What the three fetches of a call find for the variants of the range.
GeneFetches ==
    UNION {[1..n -> [gnomad : GnomadRangeRows, finemapped : FinemappedLists,
                     assoc : AssocLists]] : n \in 1..2}

\* GnomAD._fetch with a gene: the rows of the gene, by variant.
gnomad_range_data(gene, found) ==
    {i \in 1..Len(found) : upper(found[i].gnomad.gene_most_severe) = upper(gene)}

\* combined_results of Datafetch._fetch: a variant is a key when it has
\* records.
range_data(found, cat) ==
    {i \in 1..Len(found) : found[i][cat] # <<>>}

\* combined_results[variant] of a defaultdict(list).
data_of(found, cat, i) == found[i][cat]

\* The test of one consequence of a variant in the loop of gene_results.
csq_matches(gene, c, i, found) ==
    /\ c.gene_symbol = no_gene_symbol \/ upper(c.gene_symbol) = upper(gene)
    /\ c.consequence \in coding_set
    /\ i \in range_data(found, "finemapped") \/ i \in range_data(found, "assoc")

item(i, found) ==
    [variant |-> GeneVariants[i],
     finemapped |-> data_of(found, "finemapped", i),
     assoc |-> data_of(found, "assoc", i)]

RECURSIVE items_without_break(_, _, _, _)
items_without_break(gene, i, found, csq) ==
    IF csq = <<>> THEN <<>>
    ELSE (IF csq_matches(gene, Head(csq), i, found) THEN <<item(i, found)>>
          ELSE <<>>) \o items_without_break(gene, i, found, Tail(csq))

\* The items the inner loop appends for a variant: one at the first
\* consequence that matches, after which the loop is left.
RECURSIVE items_of_variant(_, _, _, _)
items_of_variant(gene, i, found, csq) ==
    IF csq = <<>> THEN <<>>
    ELSE IF csq_matches(gene, Head(csq), i, found) THEN <<item(i, found)>>
    ELSE items_of_variant(gene, i, found, Tail(csq))

RECURSIVE gene_data(_, _, _)
gene_data(gene, found, i) ==
    IF i = 0 THEN <<>>
    ELSE gene_data(gene, found, i - 1) \o
         (IF i \in gnomad_range_data(gene, found) /\ found[i].gnomad.exomes # None
          THEN items_of_variant(gene, i, found, found[i].gnomad.exomes.consequences)
          ELSE <<>>)

GeneResults(gene, found) ==
    /\ gr_call = None
    /\ gr_call' = [gene |-> gene, found |-> found]
    /\ gr_result' =
          IF gnomad_range_data(gene, found) = {}
          THEN [status |-> 404, data |-> <<>>,
                message |-> "No variants found for gene " \o gene]
          ELSE [status |-> 200, data |-> gene_data(gene, found, Len(found)),
                message |-> ""]
    /\ UNCHANGED notGene

GeneResultsReturn ==
    /\ gr_call # None
    /\ gr_call' = None
    /\ gr_result' = None
    /\ UNCHANGED notGene

NextGene ==
    \/ gr_call = None /\ \E gene \in {"BRCA2", "brca2"}, found \in GeneFetches :
                             GeneResults(gene, found)
    \/ GeneResultsReturn

SpecGene == Init /\ [][NextGene]_vars

\* The position of a variant among those of the call.
PositionOf(variant) == CHOOSE i \in 1..Len(GeneVariants) : GeneVariants[i] = variant

\* C30: in the data of a gene_results reply each variant appears at most
\* once, and only if it has an exomes record with a consequence of
\* coding_set for the queried gene or for no gene and has a record in the
\* fine-mapping or association range results; the finemapped and assoc
\* lists of an item are those of the range results for its variant.
C30_GeneDataItems ==
    (gr_call # None /\ gr_result.status = 200) =>
        LET data == gr_result.data
            found == gr_call.found
        IN /\ \A a, b \in 1..Len(data) : data[a].variant = data[b].variant => a = b
           /\ \A a \in 1..Len(data) :
                 LET i == PositionOf(data[a].variant)
                 IN /\ i \in 1..Len(found)
                    /\ found[i].gnomad.exomes # None
                    /\ \E k \in 1..Len(found[i].gnomad.exomes.consequences) :
                          LET c == found[i].gnomad.exomes.consequences[k]
                          IN /\ c.consequence \in coding_set
                             /\ c.gene_symbol \in {no_gene_symbol, "BRCA2"}
                    /\ Len(found[i].finemapped) + Len(found[i].assoc) >= 1
                    /\ data[a].finemapped = found[i].finemapped
                    /\ data[a].assoc = found[i].assoc

C30_Witness ==
    /\ gr_call # None
    /\ gr_call.gene = "brca2"
    /\ Len(gr_result.data) = 1
    /\ Len(gr_call.found) = 2
    /\ \E i \in 1..2 :
          /\ gr_result.data[1].variant = GeneVariants[i]
          /\ Len(gr_call.found[i].gnomad.exomes.consequences) = 2
          /\ \A k \in 1..2 :
                csq_matches(gr_call.gene,
                            gr_call.found[i].gnomad.exomes.consequences[k],
                            i, gr_call.found)
          /\ gr_call.found[i].finemapped = <<>>
          /\ gr_call.found[i].assoc # <<>>

=============================================================================
